---- MODULE Spec2Model ----
(***************************************************************************)
(* Storage control plane of the Cashflow_Management_System repository:     *)
(*   - the controller (src/controller.js): node registry, file location    *)
(*     index, announce/deannounce handlers and the heartbeat checker;      *)
(*   - the chunk engine (src/storage.js): splitFile, reassembleFile and    *)
(*     cleanup;                                                            *)
(*   - the upload of the user dashboard (src/user_dashboard.js) and the    *)
(*     replication endpoint of the storage nodes (src/node.js).            *)
(*                                                                         *)
(* Time is counted in milliseconds.  Spec lets it advance by one sweep     *)
(* period (10000 ms) at a time, SpecTimed by one heartbeat period of a     *)
(* node (5000 ms), which divides the sweep period and the timeout          *)
(* (30000 ms).  A node record stores lastSeenAgo, the value of             *)
(* (now - lastSeen), instead of the absolute timestamp lastSeen.           *)
(* uploadTime of a file entry is the time since the last sweep at which    *)
(* the entry was created.                                                  *)
(* SpecLive is SpecTimed with personal nodes and every handler run from    *)
(* request to response in one step.                                        *)
(* SpecHandlers is Spec without the clock: requests and the steps of       *)
(* suspended handlers only.                                                *)
(* SpecChunk runs the chunk engine on files of a few bytes with a chunk    *)
(* size of a few bytes in place of the 1 MiB of storage.js, one call at a  *)
(* time; SpecSteps interleaves a splitFile and a cleanup at their awaits.  *)
(* SpecRoundTrip is SpecChunk with splitFile and reassembleFile only.      *)
(* SpecUpload runs the upload of the user dashboard                        *)
(* (src/user_dashboard.js) with its replication to the storage nodes       *)
(* (src/node.js) against the controller; SpecShared does so with the      *)
(* push delivered to whichever node listens at the address and port of the *)
(* record, and SpecDelete adds the delete of the dashboard and the nodes   *)
(* of other users.                                                         *)
(* SpecAccounting is SpecTimed with one registration per node and one size *)
(* per file.  SpecUsers is SpecHandlers with the content of                *)
(* data/users.json.  SpecPunctual is SpecTimed with one node whose         *)
(* heartbeats all arrive.                                                  *)
(***************************************************************************)
EXTENDS Integers, Sequences, FiniteSets, Bags, TLC

VARIABLES
  registeredNodes,  \* this.registeredNodes : Map id -> node record
  fileLocations,    \* this.fileLocations   : Map filename -> file info
  inflight,         \* bag of announce/deannounce handlers suspended at an await
  sweepIn,          \* ms until the setInterval callback of the heartbeat checker fires
  usersJson,        \* data/users.json : owner email -> usedStorage of the user record
  chunkDir,         \* <basePath>/chunks   : chunk id -> bytes of the chunk file
  metaDir,          \* <basePath>/metadata : filename -> manifest (<filename>.json)
  outDir,           \* the output files    : outputPath -> bytes
  result,           \* what the last StorageManager call returned or threw
  hashed,           \* history: chunk id -> the bytes splitFile hashed and wrote under it
  splitCall,        \* the splitFile call in progress: its locals and the await it is at
  cleanupCall,      \* the cleanup call in progress: its locals and the await it is at
  upload,           \* the POST /api/upload in progress: its locals and the await it is at
  nodeStorage,      \* node_storage/<safeEmail> of the dashboard: the file names in it
  peers             \* the storage nodes: id -> localFiles and usedStorage

ctlVars == <<registeredNodes, fileLocations, inflight, sweepIn, usersJson>>
chunkVars == <<chunkDir, metaDir, outDir, result, hashed>>
callVars == <<splitCall, cleanupCall>>
dashVars == <<upload, nodeStorage, peers>>
vars == <<ctlVars, chunkVars, callVars, dashVars>>

(******************************** bounds ***********************************)
None == "null"
Nodes == {"n1", "n2"}
Files == {"f1"}
Sizes == {0, 1}
Addresses == {"a1"}
OwnerInputs == [n1 |-> {None, "u1"}, n2 |-> {None}]
PlainOnly == [id \in Nodes |-> {None}]
UsedInputs == {0, 1}
MaxUsed == 1
MaxInflight == 1
Bytes == {0, 1}
ChunkFiles == {"a"}
OutPaths == {"out"}
Filenames == {"a", "g"}
ChunkSize == 2
MaxLen == 3

(*************************** program constants ******************************)
HeartbeatInterval == 5000
HeartbeatTimeout == 30000
SweepInterval == 10000
DefaultPort == 5001

(* (now - lastSeen) is kept up to the timeout plus one sweep period: no     *)
(* sweep finds a node online beyond it, and older values are not told apart.*)
MaxAge == HeartbeatTimeout + SweepInterval

Min(a, b) == IF a < b THEN a ELSE b
Max(a, b) == IF a > b THEN a ELSE b

(* A JavaScript Map as a function on the set of its keys. *)
MapSet(m, k, v) == [x \in DOMAIN m \cup {k} |-> IF x = k THEN v ELSE m[x]]
MapDelete(m, k) == [x \in DOMAIN m \ {k} |-> m[x]]
MapHas(m, k) == k \in DOMAIN m
EmptyMap == [x \in {} |-> 0]

NoResponse == [status |-> 0, success |-> FALSE, message |-> <<>>, nodes |-> {}]

(* The controller's state as one value, so that a handler is a function    *)
(* from the state it finds to the state it leaves; res is the response the *)
(* handler sends (NoResponse while it has sent none).  now is what the     *)
(* handler's `new Date()` reads: the model's clock keeps of the date the   *)
(* time since the interval callback last ran (since the start before the   *)
(* first run).                                                             *)
Ctl == [registeredNodes |-> registeredNodes, fileLocations |-> fileLocations,
        inflight |-> inflight, res |-> NoResponse, now |-> SweepInterval - sweepIn]
Response(status, success, message) ==
  [status |-> status, success |-> success, message |-> message, nodes |-> {}]

(******************************* register **********************************)
(* POST /api/register, controller.js 38-60.  storageUsed is storage.used   *)
(* of the request body (0 when storage is absent: storage.used || 0).      *)
NodeRecord(address, owner, storageUsed) ==
  [address |-> address, port |-> DefaultPort, online |-> TRUE, lastSeenAgo |-> 0,
   owner |-> owner, storage |-> [total |-> 0, used |-> storageUsed]]

(* Register that leaves an existing record as it is *)
Register_KeepsExisting(c, id, address, owner, storageUsed) ==
  [c EXCEPT !.registeredNodes =
               IF MapHas(@, id) THEN @ ELSE MapSet(@, id, NodeRecord(address, owner, storageUsed)),
            !.res = Response(200, TRUE, <<"Node", id, "registered successfully">>)]

Register(c, id, address, owner, storageUsed) ==
  [c EXCEPT !.registeredNodes = MapSet(@, id, NodeRecord(address, owner, storageUsed)),
            !.res = Response(200, TRUE, <<"Node", id, "registered successfully">>)]

(******************************* heartbeat *********************************)
(* Heartbeat that also writes the node's storage, as register does *)
Heartbeat_ClearsStorage(c, id) ==
  [c EXCEPT !.registeredNodes =
               IF MapHas(@, id)
               THEN [@ EXCEPT ![id].lastSeenAgo = 0, ![id].online = TRUE,
                              ![id].storage.used = 0]
               ELSE @,
            !.res = Response(200, TRUE, <<"Heartbeat received">>)]

(* Heartbeat without the test of line 67: an unknown id gets a record *)
Heartbeat_Upsert(c, id) ==
  [c EXCEPT !.registeredNodes =
               IF MapHas(@, id)
               THEN [@ EXCEPT ![id].lastSeenAgo = 0, ![id].online = TRUE]
               ELSE MapSet(@, id, NodeRecord(None, None, 0)),
            !.res = Response(200, TRUE, <<"Heartbeat received">>)]

(* POST /api/heartbeat, controller.js 63-74 *)
Heartbeat(c, id) ==
  [c EXCEPT !.registeredNodes =
               IF MapHas(@, id)
               THEN [@ EXCEPT ![id].lastSeenAgo = 0, ![id].online = TRUE]
               ELSE @,
            !.res = Response(200, TRUE, <<"Heartbeat received">>)]

(************************* suspended handlers ******************************)
(* A handler suspended at `await fs.readFile` or `await fs.writeFile`.     *)
(* fileInfo is the handler's reference to the file info object: live means *)
(* it is the object stored in fileLocations under filename; otherwise the  *)
(* object was removed from the Map and owners is its (now frozen) set.     *)
Live == [live |-> TRUE, owners |-> {}]
Detached(owners) == [live |-> FALSE, owners |-> owners]

Handler(kind, id, filename, size, pc, owner) ==
  [kind |-> kind, id |-> id, filename |-> filename, size |-> size, pc |-> pc,
   owner |-> owner, fileInfo |-> Live]

BagAdd(b, h) == b (+) SetToBag({h})
BagRemove(b, h) == b (-) SetToBag({h})

RECURSIVE SumCounts(_, _)
SumCounts(b, S) ==
  IF S = {} THEN 0
  ELSE LET h == CHOOSE x \in S : TRUE IN b[h] + SumCounts(b, S \ {h})

(* this.fileLocations.delete(filename): the object leaves the Map; the     *)
(* deannounce handlers that hold it keep it, with the owners it has now.   *)
DetachHandlers(b, filename, owners) ==
  LET img(h) == IF h.kind = "deannounce" /\ h.filename = filename /\ h.fileInfo.live
                THEN [h EXCEPT !.fileInfo = Detached(owners)]
                ELSE h
      elems == BagToSet(b)
  IN [x \in {img(h) : h \in elems} |-> SumCounts(b, {h \in elems : img(h) = x})]

DeleteFile(c, filename) ==
  IF MapHas(c.fileLocations, filename)
  THEN [c EXCEPT !.fileLocations = MapDelete(@, filename),
                 !.inflight = DetachHandlers(@, filename, c.fileLocations[filename].owners)]
  ELSE c

(******************************* announce **********************************)
(* POST /api/announce, controller.js 77-137 *)
AnnounceOk(c, filename) ==
  [c EXCEPT !.res = Response(200, TRUE, <<"File", filename, "announced">>)]

(* the object of lines 88-93 *)
NewFileInfo(now, size) ==
  [owners |-> {}, uploadTime |-> now, size |-> size, replicated |-> FALSE]

(* AnnounceBegin that stores size and uploadTime at every announce *)
AnnounceBegin_Overwrites(c, id, filename, size) ==
  IF ~MapHas(c.registeredNodes, id)
  THEN [c EXCEPT !.res = Response(400, FALSE, <<"Node not registered">>)]
  ELSE
    LET isNewFile == ~MapHas(c.fileLocations, filename)
        c1 == IF isNewFile
              THEN [c EXCEPT !.fileLocations = MapSet(@, filename, NewFileInfo(c.now, size))]
              ELSE [c EXCEPT !.fileLocations[filename].uploadTime = c.now,
                             !.fileLocations[filename].size = size]
        alreadyOwner == id \in c1.fileLocations[filename].owners
        c2 == [c1 EXCEPT !.fileLocations[filename].owners = @ \cup {id}]
    IN IF ~alreadyOwner /\ size # 0
       THEN LET node == c2.registeredNodes[id]
                c3 == [c2 EXCEPT !.registeredNodes[id].storage.used = @ + size]
            IN IF node.owner # None
               THEN [c3 EXCEPT !.inflight =
                        BagAdd(@, Handler("announce", id, filename, size, "readFile", node.owner))]
               ELSE AnnounceOk(c3, filename)
       ELSE AnnounceOk(c2, filename)

(* AnnounceBegin without the alreadyOwner test of line 102 *)
AnnounceBegin_AlwaysCounts(c, id, filename, size) ==
  IF ~MapHas(c.registeredNodes, id)
  THEN [c EXCEPT !.res = Response(400, FALSE, <<"Node not registered">>)]
  ELSE
    LET c1 == IF ~MapHas(c.fileLocations, filename)
              THEN [c EXCEPT !.fileLocations =
                                MapSet(@, filename, NewFileInfo(c.now, size))]
              ELSE c
        c2 == [c1 EXCEPT !.fileLocations[filename].owners = @ \cup {id}]
    IN IF size # 0
       THEN LET node == c2.registeredNodes[id]
                c3 == [c2 EXCEPT !.registeredNodes[id].storage.used = @ + size]
            IN IF node.owner # None
               THEN [c3 EXCEPT !.inflight =
                        BagAdd(@, Handler("announce", id, filename, size, "readFile", node.owner))]
               ELSE AnnounceOk(c3, filename)
       ELSE AnnounceOk(c2, filename)

(* AnnounceBegin with the registration test of line 81 made after line 98 *)
AnnounceBegin_LateCheck(c, id, filename, size) ==
  LET c1 == IF ~MapHas(c.fileLocations, filename)
            THEN [c EXCEPT !.fileLocations =
                              MapSet(@, filename, NewFileInfo(c.now, size))]
            ELSE c
      c2 == [c1 EXCEPT !.fileLocations[filename].owners = @ \cup {id}]
  IN IF ~MapHas(c.registeredNodes, id)
     THEN [c2 EXCEPT !.res = Response(400, FALSE, <<"Node not registered">>)]
     ELSE AnnounceOk(c2, filename)

(* AnnounceBegin without the registration test of lines 81-83 *)
AnnounceBegin_Unchecked(c, id, filename, size) ==
  LET c1 == IF ~MapHas(c.fileLocations, filename)
            THEN [c EXCEPT !.fileLocations =
                              MapSet(@, filename, NewFileInfo(c.now, size))]
            ELSE c
      alreadyOwner == id \in c1.fileLocations[filename].owners
      c2 == [c1 EXCEPT !.fileLocations[filename].owners = @ \cup {id}]
  IN IF ~alreadyOwner /\ size # 0 /\ MapHas(c.registeredNodes, id)
     THEN AnnounceOk([c2 EXCEPT !.registeredNodes[id].storage.used = @ + size], filename)
     ELSE AnnounceOk(c2, filename)

(* lines 78-108: the synchronous part, up to the first await or the response *)
AnnounceBegin(c, id, filename, size) ==
  IF ~MapHas(c.registeredNodes, id)
  THEN [c EXCEPT !.res = Response(400, FALSE, <<"Node not registered">>)]
  ELSE
    LET isNewFile == ~MapHas(c.fileLocations, filename)
        c1 == IF isNewFile
              THEN [c EXCEPT !.fileLocations =
                                MapSet(@, filename, NewFileInfo(c.now, size))]
              ELSE c
        alreadyOwner == id \in c1.fileLocations[filename].owners
        c2 == [c1 EXCEPT !.fileLocations[filename].owners = @ \cup {id}]
    IN IF ~alreadyOwner /\ size # 0
       THEN LET node == c2.registeredNodes[id]
                c3 == [c2 EXCEPT !.registeredNodes[id].storage.used = @ + size]
            IN IF node.owner # None
               THEN [c3 EXCEPT !.inflight =
                        BagAdd(@, Handler("announce", id, filename, size, "readFile", node.owner))]
               ELSE AnnounceOk(c3, filename)
       ELSE AnnounceOk(c2, filename)

(****************************** deannounce *********************************)
(* POST /api/deannounce, controller.js 158-202 *)
DeannounceOk(c, id, filename) ==
  [c EXCEPT !.res = Response(200, TRUE, <<"File", filename, "deannounced for", id>>)]

(* DeannounceEnd without the deletion of line 197 *)
DeannounceEnd_KeepsEntry(c, id, filename, ownersOfFileInfo) ==
  DeannounceOk(c, id, filename)

(* DeannounceEnd without the test of line 196: the entry always goes *)
DeannounceEnd_AlwaysDeletes(c, id, filename, ownersOfFileInfo) ==
  DeannounceOk(DeleteFile(c, filename), id, filename)

(* lines 195-201; ownersOfFileInfo is fileInfo.owners as the handler sees it *)
DeannounceEnd(c, id, filename, ownersOfFileInfo) ==
  DeannounceOk(IF ownersOfFileInfo = {} THEN DeleteFile(c, filename) ELSE c, id, filename)

(* DeannounceBegin without the Math.max(0, ...) of line 177 *)
DeannounceBegin_NoFloor(c, id, filename, size) ==
  IF ~MapHas(c.registeredNodes, id)
  THEN [c EXCEPT !.res = Response(400, FALSE, <<"Node not registered">>)]
  ELSE IF ~MapHas(c.fileLocations, filename)
  THEN [c EXCEPT !.res = Response(200, TRUE, <<"File not tracked">>)]
  ELSE IF id \in c.fileLocations[filename].owners
  THEN
    LET c1 == [c EXCEPT !.fileLocations[filename].owners = @ \ {id}]
    IN IF size # 0
       THEN LET node == c1.registeredNodes[id]
                c2 == [c1 EXCEPT !.registeredNodes[id].storage.used = @ - size]
            IN IF node.owner # None
               THEN [c2 EXCEPT !.inflight =
                        BagAdd(@, Handler("deannounce", id, filename, size, "readFile", node.owner))]
               ELSE DeannounceEnd(c2, id, filename, c2.fileLocations[filename].owners)
       ELSE DeannounceEnd(c1, id, filename, c1.fileLocations[filename].owners)
  ELSE DeannounceOk(c, id, filename)

(* DeannounceBegin without the owners.has(id) test of line 170 *)
DeannounceBegin_NoOwnerTest(c, id, filename, size) ==
  IF ~MapHas(c.registeredNodes, id)
  THEN [c EXCEPT !.res = Response(400, FALSE, <<"Node not registered">>)]
  ELSE IF ~MapHas(c.fileLocations, filename)
  THEN [c EXCEPT !.res = Response(200, TRUE, <<"File not tracked">>)]
  ELSE
    LET c1 == [c EXCEPT !.fileLocations[filename].owners = @ \ {id}]
        c2 == [c1 EXCEPT !.registeredNodes[id].storage.used = Max(0, @ - size)]
    IN DeannounceEnd(c2, id, filename, c2.fileLocations[filename].owners)

(* lines 159-180: the synchronous part, up to the first await or the response *)
DeannounceBegin(c, id, filename, size) ==
  IF ~MapHas(c.registeredNodes, id)
  THEN [c EXCEPT !.res = Response(400, FALSE, <<"Node not registered">>)]
  ELSE IF ~MapHas(c.fileLocations, filename)
  THEN [c EXCEPT !.res = Response(200, TRUE, <<"File not tracked">>)]
  ELSE IF id \in c.fileLocations[filename].owners
  THEN
    LET c1 == [c EXCEPT !.fileLocations[filename].owners = @ \ {id}]
    IN IF size # 0
       THEN LET node == c1.registeredNodes[id]
                c2 == [c1 EXCEPT !.registeredNodes[id].storage.used = Max(0, @ - size)]
            IN IF node.owner # None
               THEN [c2 EXCEPT !.inflight =
                        BagAdd(@, Handler("deannounce", id, filename, size, "readFile", node.owner))]
               ELSE DeannounceEnd(c2, id, filename, c2.fileLocations[filename].owners)
       ELSE DeannounceEnd(c1, id, filename, c1.fileLocations[filename].owners)
  ELSE DeannounceOk(c, id, filename)

(********************* resuming a suspended handler ************************)
(* The handler's view of fileInfo.owners when it resumes. *)
HandlerOwners(c, h) ==
  IF h.fileInfo.live THEN c.fileLocations[h.filename].owners ELSE h.fileInfo.owners

(* lines 121-136 (announce) and 193-201 (deannounce): what follows the try/catch *)
Finish(c, h) ==
  LET c1 == [c EXCEPT !.inflight = BagRemove(@, h)]
  IN IF h.kind = "announce"
     THEN AnnounceOk(c1, h.filename)
     ELSE DeannounceEnd(c1, h.id, h.filename, HandlerOwners(c, h))

(* ReadFileDone with the increment of line 105 made after the await *)
ReadFileDone_CountsLate(c, h, userFound) ==
  LET c1 == IF h.kind = "announce" /\ MapHas(c.registeredNodes, h.id)
            THEN [c EXCEPT !.registeredNodes[h.id].storage.used = @ + h.size]
            ELSE c
  IN IF userFound
     THEN [c1 EXCEPT !.inflight = BagAdd(BagRemove(@, h), [h EXCEPT !.pc = "writeFile"])]
     ELSE c1

(* `await fs.readFile` returns (lines 111-113, 183-185).  userFound: the   *)
(* file parsed and holds the node's owner, so fs.writeFile is awaited      *)
(* next; otherwise (no such user, or the read threw into the catch) the    *)
(* handler goes on to its response.                                        *)
ReadFileDone(c, h, userFound) ==
  IF userFound
  THEN [c EXCEPT !.inflight = BagAdd(BagRemove(@, h), [h EXCEPT !.pc = "writeFile"])]
  ELSE Finish(c, h)

(* `await fs.writeFile` returns or throws (lines 114-119, 186-191) *)
WriteFileDone(c, h) == Finish(c, h)

(********************* a handler run without interleaving ******************)
(* The handler that c1 holds suspended and c0 does not. *)
NewHandler(c0, c1) ==
  CHOOSE h \in BagToSet(c1.inflight) : CopiesIn(h, c1.inflight) > CopiesIn(h, c0.inflight)

(* Both awaits of handler h return with no other handler step in between. *)
Complete(c, h, userFound) ==
  IF userFound
  THEN WriteFileDone(ReadFileDone(c, h, TRUE), [h EXCEPT !.pc = "writeFile"])
  ELSE ReadFileDone(c, h, FALSE)

(* controller.js 77-137 from request to response *)
Announce(c, id, filename, size, userFound) ==
  LET c1 == AnnounceBegin([c EXCEPT !.res = NoResponse], id, filename, size)
  IN IF c1.inflight = c.inflight THEN c1 ELSE Complete(c1, NewHandler(c, c1), userFound)

(* controller.js 158-202 from request to response *)
Deannounce(c, id, filename, size, userFound) ==
  LET c1 == DeannounceBegin([c EXCEPT !.res = NoResponse], id, filename, size)
  IN IF c1.inflight = c.inflight THEN c1 ELSE Complete(c1, NewHandler(c, c1), userFound)

(******************************** locate ***********************************)
(* GET /api/locations/:filename, controller.js 140-155 *)
(* LocateNodes without the node.online test of line 148 *)
LocateNodes_AllOwners(c, filename) ==
  IF MapHas(c.fileLocations, filename)
  THEN {[id |-> ownerId, address |-> c.registeredNodes[ownerId].address,
         port |-> c.registeredNodes[ownerId].port] :
          ownerId \in {o \in c.fileLocations[filename].owners : MapHas(c.registeredNodes, o)}}
  ELSE {}

LocateNodes(c, filename) ==
  IF MapHas(c.fileLocations, filename)
  THEN {[id |-> ownerId, address |-> c.registeredNodes[ownerId].address,
         port |-> c.registeredNodes[ownerId].port] :
          ownerId \in {o \in c.fileLocations[filename].owners :
                          MapHas(c.registeredNodes, o) /\ c.registeredNodes[o].online}}
  ELSE {}

(* Locate that drops the owners it filters out from the file's owner set *)
Locate_PrunesOffline(c, filename) ==
  [c EXCEPT !.fileLocations =
               IF MapHas(@, filename)
               THEN [@ EXCEPT ![filename].owners =
                       {o \in @ : MapHas(c.registeredNodes, o) /\ c.registeredNodes[o].online}]
               ELSE @,
            !.res = [status |-> 200, success |-> TRUE, message |-> <<>>,
                     nodes |-> LocateNodes(c, filename)]]

Locate(c, filename) ==
  [c EXCEPT !.res = [status |-> 200, success |-> TRUE, message |-> <<>>,
                     nodes |-> LocateNodes(c, filename)]]

(*************************** heartbeat checker *****************************)
(* startHeartbeatChecker, controller.js 328-373: the setInterval callback  *)
(* TimedOut with the timeout reached, not exceeded: >= for > in line 337 *)
TimedOut_Inclusive(node) ==
  node.online /\ node.owner = None /\ node.lastSeenAgo >= HeartbeatTimeout

(* TimedOut without the isPersonalNode exemption of line 336 *)
TimedOut_NoExemption(node) ==
  node.online /\ node.lastSeenAgo > HeartbeatTimeout

(* TimedOut with no allowance: any node not heard of since the last tick *)
TimedOut_NoGrace(node) ==
  node.online /\ node.owner = None /\ node.lastSeenAgo > 0

TimedOut(node) ==
  node.online /\ node.owner = None /\ node.lastSeenAgo > HeartbeatTimeout

(* lines 333-347 *)
MarkOffline(nodes) ==
  [id \in DOMAIN nodes |->
     IF TimedOut(nodes[id]) THEN [nodes[id] EXCEPT !.online = FALSE] ELSE nodes[id]]

(* HasOnlineOwner that wants every owner online: one offline owner has    *)
(* the entry removed                                                       *)
HasOnlineOwner_AllOnline(nodes, fileInfo) ==
  \A ownerId \in fileInfo.owners : MapHas(nodes, ownerId) /\ nodes[ownerId].online

(* the loop of lines 355-361 *)
HasOnlineOwner(nodes, fileInfo) ==
  \E ownerId \in fileInfo.owners : MapHas(nodes, ownerId) /\ nodes[ownerId].online

RECURSIVE DeleteFiles(_, _)
DeleteFiles(c, S) ==
  IF S = {} THEN c
  ELSE LET f == CHOOSE x \in S : TRUE IN DeleteFiles(DeleteFile(c, f), S \ {f})

(* Sweep without the `if (changed)` of line 350: the files are re-scanned  *)
(* at every run                                                            *)
Sweep_AlwaysRescan(c) ==
  LET c1 == [c EXCEPT !.registeredNodes = MarkOffline(@)]
  IN DeleteFiles(c1, {f \in DOMAIN c1.fileLocations :
                         ~HasOnlineOwner(c1.registeredNodes, c1.fileLocations[f])})

(* Sweep that never sets `changed` (line 339), so never re-scans the files *)
Sweep_NoRescan(c) ==
  [c EXCEPT !.registeredNodes = MarkOffline(@)]

(* lines 330-371 *)
Sweep(c) ==
  LET changed == \E id \in DOMAIN c.registeredNodes : TimedOut(c.registeredNodes[id])
      c1 == [c EXCEPT !.registeredNodes = MarkOffline(@)]
  IN IF changed
     THEN DeleteFiles(c1, {f \in DOMAIN c1.fileLocations :
                              ~HasOnlineOwner(c1.registeredNodes, c1.fileLocations[f])})
     ELSE c1

(***************************************************************************)
(*                     Chunk engine, src/storage.js                        *)
(***************************************************************************)
(* A file is a sequence of bytes; Buffer offsets are 0-based in the code   *)
(* and 1-based here.                                                       *)
Contents == UNION {[1..n -> Bytes] : n \in 0..MaxLen}

(* Buffer.prototype.slice(start, end) *)
Slice(buf, start, end) == [i \in 1..(end - start) |-> buf[start + i]]

(* Buffer.alloc(size): zero-filled *)
Alloc(size) == [i \in 1..size |-> 0]

(* source.copy(target, targetStart): as many bytes as fit in target *)
Copy(source, target, targetStart) ==
  [i \in 1..Len(target) |->
     IF targetStart < i /\ i <= targetStart + Len(source)
     THEN source[i - targetStart] ELSE target[i]]

(* crypto.createHash('md5').update(data).digest('hex'): a digest computed  *)
(* from the bytes; MD5 has no collision among the byte strings of the      *)
(* model, which are shorter than one MD5 block, and neither has this one.  *)
RECURSIVE Md5(_)
Md5(data) ==
  IF Len(data) = 0 THEN 0
  ELSE (Head(data) + 1) + (Cardinality(Bytes) + 1) * Md5(Tail(data))

(* `${filename}_chunk_${i}_${chunkHash}`, storage.js 37 *)
ChunkIdOf(filename, i, chunkHash) == <<filename, "chunk", i, chunkHash>>

(* The files the model splits: no byte repeats the one before it. *)
SplitInputs == {c \in Contents : \A i \in 1..(Len(c) - 1) : c[i] # c[i + 1]}

(* Math.floor(fileSize / chunkSize): drops the last, shorter chunk *)
ChunkCount_Floor(fileSize) == fileSize \div ChunkSize

(* Math.ceil(fileSize / this.chunkSize), storage.js 26 *)
ChunkCount(fileSize) == (fileSize + ChunkSize - 1) \div ChunkSize

(* The chunk directory holds at most the chunks of one longest file. *)
MaxChunkFiles == ChunkCount(MaxLen)

Disk == [chunkDir |-> chunkDir, metaDir |-> metaDir, outDir |-> outDir]

Returned(d, op, value) == [disk |-> d, op |-> op, ok |-> TRUE, error |-> "", value |-> value]
Threw(d, op, error) == [disk |-> d, op |-> op, ok |-> FALSE, error |-> error, value |-> <<>>]

(* SplitChunk with `end` taken as the index of the chunk's last byte *)
SplitChunk_EndInclusive(fileBuffer, filename, i) ==
  LET start == i * ChunkSize
      end == Min(start + ChunkSize, Len(fileBuffer)) - 1
      chunkData == Slice(fileBuffer, start, end)
      chunkHash == Md5(chunkData)
  IN [index |-> i, id |-> ChunkIdOf(filename, i, chunkHash), size |-> Len(chunkData),
      hash |-> chunkHash, data |-> chunkData]

(* storage.js 30-52: one pass of the loop, for chunk i (0-based) *)
SplitChunk(fileBuffer, filename, i) ==
  LET start == i * ChunkSize
      end == Min(start + ChunkSize, Len(fileBuffer))
      chunkData == Slice(fileBuffer, start, end)
      chunkHash == Md5(chunkData)
  IN [index |-> i, id |-> ChunkIdOf(filename, i, chunkHash), size |-> Len(chunkData),
      hash |-> chunkHash, data |-> chunkData]

Descriptor(c) == [index |-> c.index, id |-> c.id, size |-> c.size, hash |-> c.hash]

(* SplitLoop with an id that also depends on what is stored: the number   *)
(* of chunk files found is added to the index in the id                    *)
RECURSIVE SplitLoop_CountedIds(_, _, _, _, _, _)
SplitLoop_CountedIds(d, fileBuffer, filename, i, chunkCount, chunks) ==
  IF i >= chunkCount THEN [disk |-> d, chunks |-> chunks]
  ELSE LET c == SplitChunk(fileBuffer, filename, i)
           id == ChunkIdOf(filename, i + Cardinality(DOMAIN d.chunkDir), c.hash)
       IN SplitLoop_CountedIds([d EXCEPT !.chunkDir = MapSet(@, id, c.data)],
                               fileBuffer, filename, i + 1, chunkCount,
                               Append(chunks, [Descriptor(c) EXCEPT !.id = id]))

RECURSIVE SplitLoop(_, _, _, _, _, _)
SplitLoop(d, fileBuffer, filename, i, chunkCount, chunks) ==
  IF i >= chunkCount THEN [disk |-> d, chunks |-> chunks]
  ELSE LET c == SplitChunk(fileBuffer, filename, i)
       IN SplitLoop([d EXCEPT !.chunkDir = MapSet(@, c.id, c.data)],
                    fileBuffer, filename, i + 1, chunkCount, Append(chunks, Descriptor(c)))

(* splitFile(filePath, filename), storage.js 21-80; fileBuffer is the      *)
(* content of filePath                                                     *)
SplitFile(d, fileBuffer, filename) ==
  LET fileSize == Len(fileBuffer)
      chunkCount == ChunkCount(fileSize)
      written == SplitLoop(d, fileBuffer, filename, 0, chunkCount, <<>>)
      metadata == [filename |-> filename, originalSize |-> fileSize, chunkSize |-> ChunkSize,
                   chunkCount |-> chunkCount, chunks |-> written.chunks, reassembled |-> FALSE]
  IN Returned([written.disk EXCEPT !.metaDir = MapSet(@, filename, metadata)], "splitFile", metadata)

(* Array.prototype.sort((a, b) => a.index - b.index), storage.js 95 *)
RECURSIVE InsertByIndex(_, _)
InsertByIndex(sorted, c) ==
  IF sorted = <<>> THEN <<c>>
  ELSE IF Head(sorted).index <= c.index
       THEN <<Head(sorted)>> \o InsertByIndex(Tail(sorted), c)
       ELSE <<c>> \o sorted

RECURSIVE SortByIndex(_)
SortByIndex(chunks) ==
  IF chunks = <<>> THEN <<>>
  ELSE InsertByIndex(SortByIndex(SubSeq(chunks, 1, Len(chunks) - 1)), chunks[Len(chunks)])

(* `Chunk ${chunkInfo.index} integrity check failed`, storage.js 102 *)
IntegrityError == "integrity check failed"

(* The test of line 101 left out: every chunk passes *)
IntegrityOk_Unchecked(chunkData, chunkInfo) == TRUE

(* storage.js 100-101: chunkHash === chunkInfo.hash *)
IntegrityOk(chunkData, chunkInfo) == Md5(chunkData) = chunkInfo.hash

(* storage.js 95-110: the loop over the sorted chunks; gives the buffer,   *)
(* or the error thrown                                                     *)
RECURSIVE ReassembleLoop(_, _, _, _)
ReassembleLoop(d, chunks, fileBuffer, bytesWritten) ==
  IF chunks = <<>> THEN [ok |-> TRUE, error |-> "", fileBuffer |-> fileBuffer]
  ELSE LET chunkInfo == Head(chunks)
       IN IF ~MapHas(d.chunkDir, chunkInfo.id)
          THEN [ok |-> FALSE, error |-> "ENOENT", fileBuffer |-> fileBuffer]
          ELSE LET chunkData == d.chunkDir[chunkInfo.id]
               IN IF ~IntegrityOk(chunkData, chunkInfo)
                  THEN [ok |-> FALSE, error |-> IntegrityError,
                        fileBuffer |-> fileBuffer]
                  ELSE ReassembleLoop(d, Tail(chunks),
                                      Copy(chunkData, fileBuffer, bytesWritten),
                                      bytesWritten + Len(chunkData))

(* ReassembleFile without the sort of line 95: the chunks are read in the  *)
(* order of the manifest                                                   *)
ReassembleFile_Unsorted(d, filename, outputPath) ==
  IF ~MapHas(d.metaDir, filename) THEN Threw(d, "reassembleFile", "ENOENT")
  ELSE
    LET metadata == d.metaDir[filename]
        loop == ReassembleLoop(d, metadata.chunks, Alloc(metadata.originalSize), 0)
    IN IF ~loop.ok THEN Threw(d, "reassembleFile", loop.error)
       ELSE Returned([d EXCEPT !.outDir = MapSet(@, outputPath, loop.fileBuffer),
                               !.metaDir = MapSet(@, filename,
                                   [metadata EXCEPT !.reassembled = TRUE])],
                     "reassembleFile", outputPath)

(* ReassembleFile taking a missing manifest for that of an empty file *)
ReassembleFile_EmptyOnMissing(d, filename, outputPath) ==
  IF ~MapHas(d.metaDir, filename)
  THEN Returned([d EXCEPT !.outDir = MapSet(@, outputPath, <<>>)], "reassembleFile", outputPath)
  ELSE
    LET metadata == d.metaDir[filename]
        sorted == SortByIndex(metadata.chunks)
        loop == ReassembleLoop(d, sorted, Alloc(metadata.originalSize), 0)
    IN IF ~loop.ok THEN Threw(d, "reassembleFile", loop.error)
       ELSE Returned([d EXCEPT !.outDir = MapSet(@, outputPath, loop.fileBuffer),
                               !.metaDir = MapSet(@, filename,
                                   [metadata EXCEPT !.chunks = sorted, !.reassembled = TRUE])],
                     "reassembleFile", outputPath)

(* reassembleFile(filename, outputPath), storage.js 83-127 *)
ReassembleFile(d, filename, outputPath) ==
  IF ~MapHas(d.metaDir, filename) THEN Threw(d, "reassembleFile", "ENOENT")
  ELSE
    LET metadata == d.metaDir[filename]
        sorted == SortByIndex(metadata.chunks)
        loop == ReassembleLoop(d, sorted, Alloc(metadata.originalSize), 0)
    IN IF ~loop.ok THEN Threw(d, "reassembleFile", loop.error)
       ELSE Returned([d EXCEPT !.outDir = MapSet(@, outputPath, loop.fileBuffer),
                               !.metaDir = MapSet(@, filename,
                                   [metadata EXCEPT !.chunks = sorted, !.reassembled = TRUE])],
                     "reassembleFile", outputPath)

(* cleanup(), storage.js 176-211 *)
ChunkIds(chunks) == {chunks[k].id : k \in 1..Len(chunks)}

(* No manifest read: usedChunks stays empty *)
UsedChunks_None(d) == {}

UsedChunks(d) == UNION {ChunkIds(d.metaDir[f].chunks) : f \in DOMAIN d.metaDir}

Cleanup(d) ==
  LET orphans == DOMAIN d.chunkDir \ UsedChunks(d)
  IN Returned([d EXCEPT !.chunkDir = [id \in DOMAIN @ \ orphans |-> @[id]]],
              "cleanup", Cardinality(orphans))

(* The bytes of a stored chunk file changed behind the engine's back: one  *)
(* byte flipped, the last byte lost, or a byte added (up to a full chunk). *)
Mutations(bytes) ==
  {[bytes EXCEPT ![i] = 1 - @] : i \in 1..Len(bytes)}
    \cup (IF Len(bytes) > 0 THEN {SubSeq(bytes, 1, Len(bytes) - 1)} ELSE {})
    \cup (IF Len(bytes) < ChunkSize THEN {Append(bytes, 0)} ELSE {})

ApplyChunk(r) ==
  /\ chunkDir' = r.disk.chunkDir
  /\ metaDir' = r.disk.metaDir
  /\ outDir' = r.disk.outDir
  /\ result' = [op |-> r.op, ok |-> r.ok, error |-> r.error]
  /\ hashed' = [id \in DOMAIN r.disk.chunkDir |->
                  IF r.op = "splitFile" /\ id \in ChunkIds(r.value.chunks)
                  THEN r.disk.chunkDir[id] ELSE hashed[id]]
  /\ UNCHANGED <<ctlVars, dashVars>>
  /\ UNCHANGED callVars

NoResult == [op |-> "none", ok |-> TRUE, error |-> ""]

SplitReq ==
  \E fileBuffer \in SplitInputs, filename \in ChunkFiles :
    LET r == SplitFile(Disk, fileBuffer, filename)
    IN /\ Cardinality(DOMAIN r.disk.chunkDir) <= MaxChunkFiles
       /\ ApplyChunk(r)

ReassembleReq ==
  \E filename \in Filenames, outputPath \in OutPaths :
    ApplyChunk(ReassembleFile(Disk, filename, outputPath))

CleanupReq == ApplyChunk(Cleanup(Disk))

CorruptChunk ==
  \E id \in DOMAIN chunkDir : \E bytes \in Mutations(chunkDir[id]) :
    /\ chunkDir[id] = hashed[id]
    /\ chunkDir' = [chunkDir EXCEPT ![id] = bytes]
    /\ UNCHANGED <<metaDir, outDir, result, hashed>>
    /\ UNCHANGED <<ctlVars, dashVars>>
    /\ UNCHANGED callVars

ChunkNext ==
  \/ SplitReq
  \/ ReassembleReq
  \/ CleanupReq
  \/ CorruptChunk

RoundTripNext ==
  \/ SplitReq
  \/ ReassembleReq

(***************************************************************************)
(*          splitFile and cleanup, one await at a time                     *)
(***************************************************************************)
(* The locals of a splitFile call: chunk i is the one whose fs.writeFile   *)
(* is awaited at pc "writeChunk"; at "writeMetadata" the write of line 71. *)
SplitIdle ==
  [pc |-> "idle", filename |-> None, fileBuffer |-> <<>>, i |-> 0, chunks |-> <<>>]

(* The locals of a cleanup call: metaFiles are the manifests still to be   *)
(* read, allChunks the listed chunk files the loop of line 197 has not     *)
(* come to yet.                                                            *)
CleanupIdle ==
  [pc |-> "idle", metaFiles |-> {}, usedChunks |-> {}, allChunks |-> {}, deletedCount |-> 0]

(* The files the stepwise model splits, each under a filename of which     *)
(* the storage holds neither manifest nor chunk.                           *)
StepInputs == {c \in SplitInputs : Len(c) = 0 \/ c[1] = 0}

(* The chunk directory holds at most the chunks of two longest files. *)
MaxStepChunkFiles == 2 * ChunkCount(MaxLen)

(* storage.js 23-41: fs.readFile(filePath) has returned; the call runs up  *)
(* to its first fs.writeFile                                               *)
SplitStarted(fileBuffer, filename) ==
  [pc |-> IF ChunkCount(Len(fileBuffer)) = 0 THEN "writeMetadata" ELSE "writeChunk",
   filename |-> filename, fileBuffer |-> fileBuffer, i |-> 0, chunks |-> <<>>]

(* storage.js 43-52 and 30-41 (or 55-71): the write of chunk i is done;    *)
(* the call runs up to the next fs.writeFile                               *)
SplitAdvanced(call) ==
  LET c == SplitChunk(call.fileBuffer, call.filename, call.i)
  IN [call EXCEPT !.i = @ + 1,
                  !.chunks = Append(@, Descriptor(c)),
                  !.pc = IF call.i + 1 >= ChunkCount(Len(call.fileBuffer))
                         THEN "writeMetadata" ELSE "writeChunk"]

(* storage.js 55-68 *)
SplitMetadata(call) ==
  [filename |-> call.filename, originalSize |-> Len(call.fileBuffer), chunkSize |-> ChunkSize,
   chunkCount |-> ChunkCount(Len(call.fileBuffer)), chunks |-> call.chunks,
   reassembled |-> FALSE]

SplitBegin ==
  \E fileBuffer \in StepInputs, filename \in Filenames :
    /\ splitCall.pc = "idle"
    /\ ~MapHas(metaDir, filename)
    /\ \A id \in DOMAIN chunkDir : id[1] # filename
    /\ Cardinality(DOMAIN chunkDir
                     \cup ChunkIds(SplitFile(Disk, fileBuffer, filename).value.chunks))
         <= MaxStepChunkFiles
    /\ splitCall' = SplitStarted(fileBuffer, filename)
    /\ UNCHANGED <<chunkVars, cleanupCall, ctlVars, dashVars>>

(* await fs.writeFile(chunkPath, chunkData), storage.js 41 *)
SplitWriteChunk ==
  /\ splitCall.pc = "writeChunk"
  /\ LET c == SplitChunk(splitCall.fileBuffer, splitCall.filename, splitCall.i)
     IN /\ chunkDir' = MapSet(chunkDir, c.id, c.data)
        /\ hashed' = MapSet(hashed, c.id, c.data)
  /\ splitCall' = SplitAdvanced(splitCall)
  /\ UNCHANGED <<metaDir, outDir, result, cleanupCall, ctlVars, dashVars>>

(* What a failing fs.writeFile(chunkPath, chunkData) can leave in the      *)
(* chunk directory: the directory as it was, or the file cut short.        *)
FailedWrites(dir, id, data) ==
  {dir} \cup {MapSet(dir, id, SubSeq(data, 1, k)) : k \in 0..(Len(data) - 1)}

(* The error swallowed: the loop goes on to the next chunk *)
SplitFailed_GoesOn(call) == SplitAdvanced(call)

(* storage.js 76-79: the catch logs and rethrows; the call is over *)
SplitFailed(call) == SplitIdle

WriteError == "write failed"

(* await fs.writeFile(chunkPath, chunkData) throws, storage.js 41, 76-79 *)
SplitWriteChunkFails ==
  /\ splitCall.pc = "writeChunk"
  /\ LET c == SplitChunk(splitCall.fileBuffer, splitCall.filename, splitCall.i)
     IN \E dir \in FailedWrites(chunkDir, c.id, c.data) :
          /\ chunkDir' = dir
          /\ hashed' = [id \in DOMAIN dir |-> IF id = c.id THEN c.data ELSE hashed[id]]
  /\ splitCall' = SplitFailed(splitCall)
  /\ result' = [op |-> "splitFile", ok |-> FALSE, error |-> WriteError]
  /\ UNCHANGED <<metaDir, outDir, cleanupCall, ctlVars, dashVars>>

(* await fs.writeFile(metadataPath, ...), storage.js 71-74 *)
SplitWriteMetadata ==
  /\ splitCall.pc = "writeMetadata"
  /\ metaDir' = MapSet(metaDir, splitCall.filename, SplitMetadata(splitCall))
  /\ result' = [op |-> "splitFile", ok |-> TRUE, error |-> ""]
  /\ splitCall' = SplitIdle
  /\ UNCHANGED <<chunkDir, outDir, hashed, cleanupCall, ctlVars, dashVars>>

(* storage.js 178-185: fs.readdir(metadataPath) has returned *)
CleanupStarted(d) ==
  [pc |-> IF DOMAIN d.metaDir = {} THEN "readdirChunks" ELSE "readMetadata",
   metaFiles |-> DOMAIN d.metaDir, usedChunks |-> {}, allChunks |-> {}, deletedCount |-> 0]

(* storage.js 186-189: one manifest read and its chunk ids collected *)
CleanupCollected(call, d, metaFile) ==
  [call EXCEPT !.metaFiles = @ \ {metaFile},
               !.usedChunks = @ \cup ChunkIds(d.metaDir[metaFile].chunks),
               !.pc = IF call.metaFiles = {metaFile} THEN "readdirChunks" ELSE "readMetadata"]

(* storage.js 197-198: the listed chunk files the loop passes over before  *)
(* it reaches an fs.unlink, or its end                                     *)
Orphans(call) == call.allChunks \ call.usedChunks

CleanupBegin ==
  /\ cleanupCall.pc = "idle"
  /\ cleanupCall' = CleanupStarted(Disk)
  /\ UNCHANGED <<chunkVars, splitCall, ctlVars, dashVars>>

CleanupReadMetadata ==
  \E metaFile \in cleanupCall.metaFiles :
    /\ cleanupCall.pc = "readMetadata"
    /\ cleanupCall' = CleanupCollected(cleanupCall, Disk, metaFile)
    /\ UNCHANGED <<chunkVars, splitCall, ctlVars, dashVars>>

(* storage.js 192-193: fs.readdir(chunksPath) has returned; with nothing   *)
(* to delete the call returns (lines 204-205)                              *)
CleanupListChunks ==
  /\ cleanupCall.pc = "readdirChunks"
  /\ LET listed == [cleanupCall EXCEPT !.allChunks = DOMAIN chunkDir, !.pc = "unlink"]
     IN IF Orphans(listed) = {}
        THEN /\ cleanupCall' = CleanupIdle
             /\ result' = [op |-> "cleanup", ok |-> TRUE, error |-> ""]
        ELSE /\ cleanupCall' = listed
             /\ UNCHANGED result
  /\ UNCHANGED <<chunkDir, metaDir, outDir, hashed, splitCall, ctlVars, dashVars>>

(* await fs.unlink(...), storage.js 199-200; after the last one the call   *)
(* returns deletedCount                                                    *)
CleanupUnlink ==
  \E chunkFile \in Orphans(cleanupCall) :
    /\ cleanupCall.pc = "unlink"
    /\ chunkDir' = [id \in DOMAIN chunkDir \ {chunkFile} |-> chunkDir[id]]
    /\ hashed' = [id \in DOMAIN hashed \ {chunkFile} |-> hashed[id]]
    /\ IF Orphans(cleanupCall) = {chunkFile}
       THEN /\ cleanupCall' = CleanupIdle
            /\ result' = [op |-> "cleanup", ok |-> TRUE, error |-> ""]
       ELSE /\ cleanupCall' = [cleanupCall EXCEPT !.allChunks = @ \ {chunkFile},
                                                  !.deletedCount = @ + 1]
            /\ UNCHANGED result
    /\ UNCHANGED <<metaDir, outDir, splitCall, ctlVars, dashVars>>

StepNext ==
  \/ SplitBegin
  \/ SplitWriteChunk
  \/ SplitWriteChunkFails
  \/ SplitWriteMetadata
  \/ CleanupBegin
  \/ CleanupReadMetadata
  \/ CleanupListChunks
  \/ CleanupUnlink

(******************************** actions **********************************)
Apply(c) ==
  /\ registeredNodes' = c.registeredNodes
  /\ fileLocations' = c.fileLocations
  /\ inflight' = c.inflight
  /\ UNCHANGED usersJson
  /\ UNCHANGED chunkVars
  /\ UNCHANGED callVars
  /\ UNCHANGED dashVars

RegisterReq(owners) ==
  /\ \E id \in Nodes, address \in Addresses, used \in UsedInputs :
     \E owner \in owners[id] :
       Apply(Register(Ctl, id, address, owner, used))
  /\ UNCHANGED sweepIn

HeartbeatReq ==
  /\ \E id \in Nodes : Apply(Heartbeat(Ctl, id))
  /\ UNCHANGED sweepIn

UsedWithin(c) ==
  \A id \in DOMAIN c.registeredNodes : c.registeredNodes[id].storage.used <= MaxUsed

(* The request POST /api/announce {id, filename, size} arrives. *)
AnnounceOf(id, filename, size) ==
  LET c == AnnounceBegin(Ctl, id, filename, size)
  IN /\ UsedWithin(c)
     /\ BagCardinality(c.inflight) <= MaxInflight
     /\ Apply(c)

AnnounceReq ==
  /\ \E id \in Nodes, filename \in Files, size \in Sizes : AnnounceOf(id, filename, size)
  /\ UNCHANGED sweepIn

DeannounceReq ==
  /\ \E id \in Nodes, filename \in Files, size \in Sizes :
       LET c == DeannounceBegin(Ctl, id, filename, size)
       IN /\ BagCardinality(c.inflight) <= MaxInflight
          /\ Apply(c)
  /\ UNCHANGED sweepIn

ReadFileReturns ==
  /\ \E h \in BagToSet(inflight), userFound \in BOOLEAN :
       /\ h.pc = "readFile"
       /\ Apply(ReadFileDone(Ctl, h, userFound))
  /\ UNCHANGED sweepIn

WriteFileReturns ==
  /\ \E h \in BagToSet(inflight) :
       /\ h.pc = "writeFile"
       /\ Apply(WriteFileDone(Ctl, h))
  /\ UNCHANGED sweepIn

LocateReq ==
  /\ \E filename \in Files : Apply(Locate(Ctl, filename))
  /\ UNCHANGED sweepIn

(* ms milliseconds pass; (now - lastSeen) grows for every node. *)
Elapse(nodes, ms) ==
  [id \in DOMAIN nodes |->
     [nodes[id] EXCEPT !.lastSeenAgo = Min(@ + ms, MaxAge)]]

(* ms milliseconds pass and the interval timer is not yet due *)
TimePasses(ms) ==
  /\ sweepIn > ms
  /\ sweepIn' = sweepIn - ms
  /\ registeredNodes' = Elapse(registeredNodes, ms)
  /\ UNCHANGED <<fileLocations, inflight, usersJson>>
  /\ UNCHANGED chunkVars
  /\ UNCHANGED callVars
  /\ UNCHANGED dashVars

(* the last ms milliseconds of the interval pass and the callback of       *)
(* setInterval(..., 10000) runs, controller.js 329-372                     *)
SweepTick(ms) ==
  /\ sweepIn = ms
  /\ Apply(Sweep([Ctl EXCEPT !.registeredNodes = Elapse(@, ms)]))
  /\ sweepIn' = SweepInterval

CtlNext ==
  \/ RegisterReq(OwnerInputs)
  \/ HeartbeatReq
  \/ AnnounceReq
  \/ DeannounceReq
  \/ ReadFileReturns
  \/ WriteFileReturns
  \/ LocateReq
  \/ SweepTick(SweepInterval)

(***************************************************************************)
(*        The dashboard upload and its replication, step by step           *)
(*                                                                         *)
(* POST /api/upload of src/user_dashboard.js (180-288) for one logged-in   *)
(* user, one request at a time, with the replication it starts and the     *)
(* /api/replicate handler of the peers (src/node.js 133-172).  Each action *)
(* is the code between two awaits.                                         *)
(***************************************************************************)
Uploader == "n1"            \* node_<safeEmail>, the personal node of the user
UploaderEmail == "u1"       \* req.user.email
Peers == {"n2", "n3"}       \* the storage nodes (src/node.js)
UploadNames == {"f1", "f1(1)"}  \* the paths node_storage/<safeEmail> may hold

UploadIdle ==
  [pc |-> "idle", fileName |-> None, finalPath |-> None, size |-> 0,
   res |-> NoResponse, otherNodes |-> <<>>, i |-> 0, log |-> <<>>]

PeerIdle == [localFiles |-> EmptyMap, usedStorage |-> 0]

(* `${base}(${counter})${ext}`, user_dashboard.js 203-205 (no extension) *)
Renamed(fileName, counter) == fileName \o "(" \o ToString(counter) \o ")"

(* the while (true) loop of user_dashboard.js 197-211 *)
RECURSIVE FinalPathFrom(_, _, _, _)
FinalPathFrom(dir, fileName, finalPath, counter) ==
  IF finalPath \in dir
  THEN FinalPathFrom(dir, fileName, Renamed(fileName, counter), counter + 1)
  ELSE finalPath

FinalPath(dir, fileName) == FinalPathFrom(dir, fileName, fileName, 1)

(* res.json of user_dashboard.js 275-283 *)
UploadOk(name, size) ==
  [status |-> 200, success |-> TRUE, message |-> <<"File uploaded successfully">>,
   file |-> <<name, size>>]

UploadError(status, message) ==
  [status |-> status, success |-> FALSE, message |-> message, file |-> <<>>]

(* sequences that list every element of S once *)
Orderings(S) ==
  {s \in [1..Cardinality(S) -> S] : \A j, k \in DOMAIN s : j # k => s[j] # s[k]}

(* allNodes.filter(n => n.id !== currentNodeId && n.online), line 238 *)
OtherNodes(nodes, currentNodeId) ==
  {id \in DOMAIN nodes : id # currentNodeId /\ nodes[id].online}

ApplyUpload(c, call) ==
  /\ registeredNodes' = c.registeredNodes
  /\ fileLocations' = c.fileLocations
  /\ inflight' = c.inflight
  /\ upload' = call
  /\ UNCHANGED <<sweepIn, usersJson, chunkVars, callVars>>

(* lines 182-184: no file in the request *)
UploadRejected ==
  /\ upload.pc \in {"idle", "done"}
  /\ upload' = [UploadIdle EXCEPT !.pc = "done",
                                  !.res = UploadError(400, <<"No file uploaded">>)]
  /\ UNCHANGED <<nodeStorage, peers, ctlVars, chunkVars, callVars>>

(* lines 186-214: the file is moved under the first free name *)
UploadStored ==
  /\ upload.pc \in {"idle", "done"}
  /\ \E fileName \in Files, size \in Sizes :
       LET finalPath == FinalPath(nodeStorage, fileName)
       IN /\ finalPath \in UploadNames
          /\ nodeStorage' = nodeStorage \cup {finalPath}
          /\ upload' = [UploadIdle EXCEPT !.pc = "announce", !.fileName = fileName,
                                          !.finalPath = finalPath, !.size = size]
  /\ UNCHANGED <<peers, ctlVars, chunkVars, callVars>>

(* lines 193-214 throw (mkdir, rename or stat): the outer catch, 284-287 *)
UploadStoreFails ==
  /\ upload.pc \in {"idle", "done"}
  /\ upload' = [UploadIdle EXCEPT !.pc = "done",
                                  !.res = UploadError(500, <<"fs error">>)]
  /\ UNCHANGED <<nodeStorage, peers, ctlVars, chunkVars, callVars>>

(* Lines 233-283 run without an await in between: the replication starts   *)
(* with its request for the node list and the response goes out.           *)
UploadResponded(call) ==
  [call EXCEPT !.pc = "listNodes", !.res = UploadOk(call.finalPath, call.size)]

(* lines 219-227: the controller handles the announce and answers *)
UploadAnnounced ==
  /\ upload.pc = "announce"
  /\ \E userFound \in BOOLEAN :
       LET c == Announce(Ctl, Uploader, upload.finalPath, upload.size, userFound)
       IN /\ UsedWithin(c)
          /\ ApplyUpload(c, UploadResponded(upload))
  /\ UNCHANGED <<nodeStorage, peers>>

(* lines 228-230: the announce does not reach the controller *)
UploadAnnounceFails ==
  /\ upload.pc = "announce"
  /\ upload' = UploadResponded(upload)
  /\ UNCHANGED <<nodeStorage, peers, ctlVars, chunkVars, callVars>>

(* lines 235-244: GET /api/nodes answers (controller.js 205-216) *)
UploadListed ==
  /\ upload.pc = "listNodes"
  /\ \E otherNodes \in Orderings(OtherNodes(registeredNodes, Uploader)) :
       upload' = [upload EXCEPT !.otherNodes = otherNodes,
                                !.pc = IF Len(otherNodes) > 0 THEN "readFile" ELSE "done"]
  /\ UNCHANGED <<nodeStorage, peers, ctlVars, chunkVars, callVars>>

(* lines 270-272: GET /api/nodes or fs.readFile throws *)
UploadReplicationFails ==
  /\ upload.pc \in {"listNodes", "readFile"}
  /\ upload' = [upload EXCEPT !.pc = "done"]
  /\ UNCHANGED <<nodeStorage, peers, ctlVars, chunkVars, callVars>>

(* line 244: fs.readFile(finalPath) returns; the loop of 247 starts *)
UploadReadFile ==
  /\ upload.pc = "readFile"
  /\ upload.finalPath \in nodeStorage
  /\ upload' = [upload EXCEPT !.pc = "push", !.i = 1]
  /\ UNCHANGED <<nodeStorage, peers, ctlVars, chunkVars, callVars>>

(* the for loop of 247-266 moves to the next node, or ends (268) *)
PushNext(call) ==
  [call EXCEPT !.i = @ + 1,
               !.pc = IF call.i < Len(call.otherNodes) THEN "push" ELSE "done"]

(* line 262 *)
PushDone(call) ==
  PushNext([call EXCEPT !.log = Append(@, <<call.otherNodes[call.i], "replicated">>)])

(* The error leaves the loop, as the catch of 270-272 would have it *)
PushFailed_Aborts(call) ==
  [call EXCEPT !.log = Append(@, <<call.otherNodes[call.i], "failed">>),
               !.pc = "done"]

(* lines 263-265: the catch inside the loop logs and goes on *)
PushFailed(call) ==
  PushNext([call EXCEPT !.log = Append(@, <<call.otherNodes[call.i], "failed">>)])

(* node.js 139-149: the peer moves the file into its storage *)
Replicated(peer, filename, size) ==
  [peer EXCEPT !.localFiles = MapSet(@, filename, size), !.usedStorage = @ + size]

(* node.js 133-172 on the peer: the file is stored and, when announced is  *)
(* TRUE, the announce of 155-161 reaches the controller.                   *)
PeerReplicates(id, call, announced) ==
  LET c == IF announced THEN Announce(Ctl, id, call.finalPath, call.size, FALSE) ELSE Ctl
  IN /\ UsedWithin(c)
     /\ peers' = MapSet(peers, id, Replicated(peers[id], call.finalPath, call.size))
     /\ \E next \in {PushDone(call), PushFailed(call)} : ApplyUpload(c, next)

(* lines 254-262: the peer handles the push; its answer arrives within the *)
(* 5000 ms (PushDone) or after them (PushFailed).                          *)
PushHandled ==
  /\ upload.pc = "push"
  /\ \E announced \in BOOLEAN :
       PeerReplicates(upload.otherNodes[upload.i], upload, announced)
  /\ UNCHANGED nodeStorage

(* lines 263-265: the peer is unreachable or answers with an error *)
PushFails ==
  /\ upload.pc = "push"
  /\ upload' = PushFailed(upload)
  /\ UNCHANGED <<nodeStorage, peers, ctlVars, chunkVars, callVars>>

(* register.js 270-277: the login registers the personal node *)
LoginRegisters ==
  /\ \E address \in Addresses :
       Apply(Register(Ctl, Uploader, address, UploaderEmail, 0))
  /\ UNCHANGED sweepIn

(* node.js 53-59: a storage node registers (again) *)
PeerRegisters ==
  /\ \E id \in Peers, address \in Addresses :
       Apply(Register(Ctl, id, address, None, 0))
  /\ UNCHANGED sweepIn

UploadNext ==
  \/ LoginRegisters
  \/ PeerRegisters
  \/ UploadRejected
  \/ UploadStored
  \/ UploadStoreFails
  \/ UploadAnnounced
  \/ UploadAnnounceFails
  \/ UploadListed
  \/ UploadReplicationFails
  \/ UploadReadFile
  \/ PushHandled
  \/ PushFails

(* the record of a storage node that the heartbeat checker marked offline, *)
(* controller.js 330-347                                                   *)
SilentNode(address) ==
  [NodeRecord(address, None, 0) EXCEPT !.online = FALSE, !.lastSeenAgo = MaxAge]

(* data/users.json as sign-up leaves it: usedStorage 0 (register.js 89) *)
UsersJson0 == [email \in {"u1"} |-> 0]

Init ==
  /\ registeredNodes = EmptyMap
  /\ fileLocations = EmptyMap
  /\ inflight = EmptyBag
  /\ sweepIn = SweepInterval
  /\ usersJson = UsersJson0
  /\ chunkDir = EmptyMap
  /\ metaDir = EmptyMap
  /\ outDir = EmptyMap
  /\ result = NoResult
  /\ hashed = EmptyMap
  /\ splitCall = SplitIdle
  /\ cleanupCall = CleanupIdle
  /\ upload = UploadIdle
  /\ nodeStorage = {}
  /\ peers = [id \in Peers |-> PeerIdle]

(* The storage nodes have registered, some have fallen silent since; the   *)
(* user has not logged in yet.                                             *)
UploadInit ==
  /\ registeredNodes \in [Peers -> {NodeRecord(a, None, 0) : a \in Addresses}
                                     \cup {SilentNode(a) : a \in Addresses}]
  /\ fileLocations = EmptyMap
  /\ inflight = EmptyBag
  /\ sweepIn = SweepInterval
  /\ usersJson = UsersJson0
  /\ chunkDir = EmptyMap
  /\ metaDir = EmptyMap
  /\ outDir = EmptyMap
  /\ result = NoResult
  /\ hashed = EmptyMap
  /\ splitCall = SplitIdle
  /\ cleanupCall = CleanupIdle
  /\ upload = UploadIdle
  /\ nodeStorage = {}
  /\ peers = [id \in Peers |-> PeerIdle]

Spec == Init /\ [][CtlNext]_vars

(* Plain storage nodes only (no owner, so no handler ever suspends), with  *)
(* the clock read every HeartbeatInterval.                                  *)
TimedNext ==
  \/ RegisterReq(PlainOnly)
  \/ HeartbeatReq
  \/ AnnounceReq
  \/ DeannounceReq
  \/ LocateReq
  \/ TimePasses(HeartbeatInterval)
  \/ SweepTick(HeartbeatInterval)

SpecTimed == Init /\ [][TimedNext]_vars

(* POST /api/announce and /api/deannounce handled from request to         *)
(* response with no other step in between.                                 *)
AnnounceCall ==
  /\ \E id \in Nodes, filename \in Files, size \in Sizes, userFound \in BOOLEAN :
       LET c == Announce(Ctl, id, filename, size, userFound)
       IN UsedWithin(c) /\ Apply(c)
  /\ UNCHANGED sweepIn

DeannounceCall ==
  /\ \E id \in Nodes, filename \in Files, size \in Sizes, userFound \in BOOLEAN :
       Apply(Deannounce(Ctl, id, filename, size, userFound))
  /\ UNCHANGED sweepIn

(* Liveness tracking: plain and personal nodes, the clock read every       *)
(* HeartbeatInterval, and no request arriving while a handler is           *)
(* suspended.                                                              *)
LiveNext ==
  \/ RegisterReq(OwnerInputs)
  \/ HeartbeatReq
  \/ AnnounceCall
  \/ DeannounceCall
  \/ LocateReq
  \/ TimePasses(HeartbeatInterval)
  \/ SweepTick(HeartbeatInterval)

SpecLive == Init /\ [][LiveNext]_vars

(* The announce and deannounce handlers on their own: nodes register and   *)
(* send requests, suspended handlers resume, and no time passes (every     *)
(* node stays online and no sweep runs).                                   *)
HandlerNext ==
  \/ RegisterReq(OwnerInputs)
  \/ AnnounceReq
  \/ DeannounceReq
  \/ ReadFileReturns
  \/ WriteFileReturns

SpecHandlers == Init /\ [][HandlerNext]_vars

(* The chunk engine alone: one StorageManager, calls made one at a time. *)
SpecChunk == Init /\ [][ChunkNext]_vars

(* The chunk engine used for splitting and reassembling only: no cleanup,  *)
(* and no chunk file changed from outside.                                 *)
SpecRoundTrip == Init /\ [][RoundTripNext]_vars

(* The chunk engine with one splitFile and one cleanup in progress at a    *)
(* time, interleaved at their awaits.                                      *)
SpecSteps == Init /\ [][StepNext]_vars

(* One user's dashboard, the controller and two storage nodes. *)
SpecUpload == UploadInit /\ [][UploadNext]_vars

(***************************************************************************)
(*                               Claims                                    *)
(***************************************************************************)
Used(c, id) == c.registeredNodes[id].storage.used
Tracked(c, filename) == MapHas(c.fileLocations, filename)
Owners(c, filename) == c.fileLocations[filename].owners
NotRegistered == Response(400, FALSE, <<"Node not registered">>)

(* C1 as stated: from every reachable state, for every registered node n,  *)
(* file f and size s > 0, announce(f, n, s) immediately followed by        *)
(* deannounce(f, n, s) leaves no entry for f and n's storage.used as it    *)
(* was before the announce.                                                *)
C1_Original ==
  \A id \in DOMAIN registeredNodes, f \in Files, s \in Sizes \ {0}, uf1 \in BOOLEAN, uf2 \in BOOLEAN :
    LET c1 == Announce(Ctl, id, f, s, uf1)
        c2 == Deannounce(c1, id, f, s, uf2)
    IN /\ c1.res.success /\ c2.res.success
       /\ ~Tracked(c2, f)
       /\ Used(c2, id) = Used(Ctl, id)

(* C1 amended: the same, from every reachable state in which f has no      *)
(* entry in the file index.                                                *)
C1_AnnounceDeannounce ==
  \A id \in DOMAIN registeredNodes, f \in Files \ DOMAIN fileLocations,
     s \in Sizes \ {0}, uf1 \in BOOLEAN, uf2 \in BOOLEAN :
    LET c1 == Announce(Ctl, id, f, s, uf1)
        c2 == Deannounce(c1, id, f, s, uf2)
    IN /\ c1.res.success /\ c2.res.success
       /\ ~Tracked(c2, f)
       /\ Used(c2, id) = Used(Ctl, id)

(* A registered node with used > 0 and an untracked file: the announce     *)
(* creates the entry and raises used, the deannounce undoes both.          *)
C1_Witness ==
  \E id \in DOMAIN registeredNodes, f \in Files \ DOMAIN fileLocations, s \in Sizes \ {0} :
    LET c1 == Announce(Ctl, id, f, s, TRUE)
    IN /\ Used(Ctl, id) > 0
       /\ registeredNodes[id].owner # None
       /\ Owners(c1, f) = {id}
       /\ Used(c1, id) = Used(Ctl, id) + s
       /\ ~Tracked(Deannounce(c1, id, f, s, TRUE), f)

(* C2: announce(f, n, s) twice in a row raises n's storage.used by s once  *)
(* (the first call, when n was not yet an owner of f); the second call     *)
(* changes neither n's storage.used nor the owners of f.                   *)
C2_AnnounceIdempotent ==
  \A id \in DOMAIN registeredNodes, f \in Files, s \in Sizes, uf1 \in BOOLEAN, uf2 \in BOOLEAN :
    LET was == Tracked(Ctl, f) /\ id \in Owners(Ctl, f)
        c1 == Announce(Ctl, id, f, s, uf1)
        c2 == Announce(c1, id, f, s, uf2)
    IN /\ c1.res.success /\ c2.res.success
       /\ Used(c1, id) = Used(Ctl, id) + (IF was THEN 0 ELSE s)
       /\ Used(c2, id) = Used(c1, id)
       /\ Owners(c2, f) = Owners(c1, f)
       /\ id \in Owners(c1, f)

(* A state an announce has produced (n owns f, used > 0) from which the    *)
(* same announce changes nothing, and one from which a first announce adds.*)
C2_Witness ==
  \E id \in DOMAIN registeredNodes, f \in DOMAIN fileLocations :
    /\ id \in Owners(Ctl, f)
    /\ Used(Ctl, id) > 0
    /\ \E other \in DOMAIN registeredNodes \ Owners(Ctl, f) :
         Used(Announce(Ctl, other, f, 1, TRUE), other) = Used(Ctl, other) + 1

(* C3 as stated: right after every run of the sweep, every entry of the    *)
(* file index has an owner whose node record is online.                    *)
AllHaveOnlineOwner(nodes, files) ==
  \A f \in DOMAIN files : HasOnlineOwner(nodes, files[f])

C3_Original ==
  [][(SweepTick(SweepInterval) \/ SweepTick(HeartbeatInterval))
       => AllHaveOnlineOwner(registeredNodes', fileLocations')]_vars

(* C4 as stated: in every reachable state no entry of the file index has   *)
(* an empty owners set.                                                    *)
C4_Original ==
  \A f \in DOMAIN fileLocations : fileLocations[f].owners # {}

(* C5: locate(f) never includes a node whose record is marked offline.     *)
C5_LocateOnlineOnly ==
  \A f \in Files : \A n \in LocateNodes(Ctl, f) :
    MapHas(registeredNodes, n.id) /\ registeredNodes[n.id].online

(* An offline node is still among the owners of f and locate(f) gives the  *)
(* other owner only.                                                       *)
C5_Witness ==
  \E f \in DOMAIN fileLocations : \E off \in Owners(Ctl, f), on \in Owners(Ctl, f) :
    /\ ~registeredNodes[off].online
    /\ LocateNodes(Ctl, f) = {[id |-> on, address |-> registeredNodes[on].address,
                                port |-> registeredNodes[on].port]}

(* C6: announce or deannounce for an id absent from the registry answers   *)
(* 400 'Node not registered' and leaves nodes, files and handlers as they  *)
(* were.                                                                   *)
C6_UnknownNodeRejected ==
  \A id \in Nodes \ DOMAIN registeredNodes, f \in Files, s \in Sizes :
    /\ AnnounceBegin(Ctl, id, f, s) = [Ctl EXCEPT !.res = NotRegistered]
    /\ DeannounceBegin(Ctl, id, f, s) = [Ctl EXCEPT !.res = NotRegistered]

(* An unregistered id while another node is registered and owns a file. *)
C6_Witness ==
  \E id \in Nodes \ DOMAIN registeredNodes, f \in DOMAIN fileLocations :
    /\ Owners(Ctl, f) # {}
    /\ AnnounceBegin(Ctl, id, f, 1).res = NotRegistered
    /\ DeannounceBegin(Ctl, id, f, 1).res = NotRegistered

(* C7: a node record that has an owner is online in every reachable state, *)
(* however old its lastSeen: the sweep never marks it offline.             *)
C7_PersonalAlwaysOnline ==
  \A id \in DOMAIN registeredNodes :
    registeredNodes[id].owner # None =>
      /\ registeredNodes[id].online
      /\ Sweep(Ctl).registeredNodes[id].online

(* A personal node silent for longer than the timeout, past a sweep that   *)
(* marked a plain node offline, and still online.                          *)
C7_Witness ==
  \E id \in DOMAIN registeredNodes, other \in DOMAIN registeredNodes :
    /\ registeredNodes[id].owner # None
    /\ registeredNodes[id].lastSeenAgo > HeartbeatTimeout
    /\ registeredNodes[id].online
    /\ ~registeredNodes[other].online

(* C8 as stated (its timing): a plain node whose last heartbeat or         *)
(* registration is 31 s or more ago is marked offline.                     *)
C8_Original ==
  \A id \in DOMAIN registeredNodes :
    (registeredNodes[id].owner = None /\ registeredNodes[id].lastSeenAgo >= 31000)
      => ~registeredNodes[id].online

(* C8 amended: a plain node A is marked offline by the first sweep that    *)
(* runs more than 30 s after its last heartbeat or registration, which is  *)
(* at most 40 s after it (30 s timeout + 10 s sweep period): it is offline *)
(* once 40 s have elapsed.  The sweep that marks A offline removes the     *)
(* entry of a file whose only owner is A, and locate(f) is then empty.     *)
C8_SweepEvicts ==
  /\ [](\A id \in DOMAIN registeredNodes :
          (/\ registeredNodes[id].owner = None
           /\ registeredNodes[id].lastSeenAgo > HeartbeatTimeout + (SweepInterval - sweepIn))
            => ~registeredNodes[id].online)
  /\ [][\A id \in DOMAIN registeredNodes, f \in DOMAIN fileLocations :
          (/\ registeredNodes[id].online
           /\ MapHas(registeredNodes', id) /\ ~registeredNodes'[id].online
           /\ fileLocations[f].owners = {id})
            => (/\ ~MapHas(fileLocations', f)
                /\ LocateNodes(Ctl, f)' = {})]_vars

(* A plain node, sole owner of a file, silent for 40 s: it is offline and  *)
(* the file's entry is gone.                                               *)
C8_Witness ==
  \E id \in DOMAIN registeredNodes :
    /\ registeredNodes[id].owner = None
    /\ registeredNodes[id].lastSeenAgo >= HeartbeatTimeout + SweepInterval
    /\ ~registeredNodes[id].online
    /\ registeredNodes[id].storage.used > 0
    /\ fileLocations = EmptyMap
(***************************************************************************)
(* C9: for every file content, the empty file and the sizes that are not a *)
(* multiple of the chunk size included, splitFile followed by              *)
(* reassembleFile of the same filename succeeds and writes an output file  *)
(* whose bytes are the content, whatever the disk held before.             *)
(***************************************************************************)
C9_RoundTrip ==
  \A fileBuffer \in Contents, filename \in ChunkFiles, outputPath \in OutPaths :
    LET s == SplitFile(Disk, fileBuffer, filename)
        r == ReassembleFile(s.disk, filename, outputPath)
    IN /\ s.ok
       /\ r.ok
       /\ MapHas(r.disk.outDir, outputPath)
       /\ r.disk.outDir[outputPath] = fileBuffer

(* The bytes splitFile hashed for the chunks of a manifest, in index order *)
RECURSIVE HashedBytes(_)
HashedBytes(chunks) ==
  IF chunks = <<>> THEN <<>> ELSE hashed[Head(chunks).id] \o HashedBytes(Tail(chunks))

(* A file of two chunks, the last one short, was split and reassembled. *)
C9_Witness ==
  /\ result = [op |-> "reassembleFile", ok |-> TRUE, error |-> ""]
  /\ \E filename \in DOMAIN metaDir, outputPath \in DOMAIN outDir :
       LET metadata == metaDir[filename]
       IN /\ metadata.reassembled
          /\ metadata.chunkCount >= 2
          /\ metadata.originalSize % ChunkSize # 0
          /\ outDir[outputPath] = HashedBytes(metadata.chunks)
          /\ Len(outDir[outputPath]) = metadata.originalSize

(***************************************************************************)
(* C10: when the stored bytes of a chunk that a manifest references are    *)
(* not the bytes hashed at split time, reassembleFile of that manifest     *)
(* throws the integrity error, writes no output file and leaves the        *)
(* manifest, its reassembled flag included, as it was.                     *)
(***************************************************************************)
Mutated(filename) ==
  \E id \in ChunkIds(metaDir[filename].chunks) :
    MapHas(chunkDir, id) /\ chunkDir[id] # hashed[id]

C10_MutatedChunkRejected ==
  \A filename \in DOMAIN metaDir, outputPath \in OutPaths :
    Mutated(filename) =>
      LET r == ReassembleFile(Disk, filename, outputPath)
      IN /\ ~r.ok
         /\ r.error = IntegrityError
         /\ r.disk.outDir = outDir
         /\ r.disk.metaDir = metaDir
         /\ r.disk.metaDir[filename].reassembled = metaDir[filename].reassembled
         /\ r.disk.chunkDir = chunkDir

(* reassembleFile threw on a mutated chunk of a manifest that an earlier   *)
(* call had reassembled: the flag and the earlier output are still there.  *)
C10_Witness ==
  /\ result = [op |-> "reassembleFile", ok |-> FALSE, error |-> IntegrityError]
  /\ \E filename \in DOMAIN metaDir :
       /\ Mutated(filename)
       /\ metaDir[filename].reassembled
       /\ outDir # EmptyMap

(***************************************************************************)
(* C11: cleanup running concurrently with splitFile of another filename g  *)
(* is safe: however the awaits of the two calls interleave, when           *)
(* splitFile(g) returns every chunk its manifest lists is a file of the    *)
(* chunk directory.                                                        *)
(***************************************************************************)
AllChunksStored(metadata, dir) == ChunkIds(metadata.chunks) \subseteq DOMAIN dir

C11_Original ==
  [][SplitWriteMetadata => AllChunksStored(metaDir'[splitCall.filename], chunkDir')]_vars

(***************************************************************************)
(* C12: whatever handlers are suspended, an announce request for (n, f)    *)
(* tests owner membership and adds to storage.used in one step: it adds    *)
(* the size iff n was not an owner of f when it arrived, and the later     *)
(* steps of a suspended handler add nothing.  So used grows once per       *)
(* (file, node) pair, however many in-flight requests name the pair.       *)
(***************************************************************************)
IsOwner(c, id, filename) == Tracked(c, filename) /\ id \in Owners(c, filename)

UsedKept(c0, c1) ==
  \A id \in DOMAIN c0.registeredNodes : Used(c1, id) = Used(c0, id)

C12_AnnounceCountsOnce ==
  /\ \A id \in DOMAIN registeredNodes, filename \in Files, size \in Sizes :
       LET c == AnnounceBegin(Ctl, id, filename, size)
       IN /\ Used(c, id) = Used(Ctl, id) + (IF IsOwner(Ctl, id, filename) THEN 0 ELSE size)
          /\ IsOwner(c, id, filename)
          /\ \A other \in DOMAIN registeredNodes \ {id} : Used(c, other) = Used(Ctl, other)
  /\ \A h \in BagToSet(inflight) :
       /\ h.pc = "readFile" => \A userFound \in BOOLEAN :
                                 UsedKept(Ctl, ReadFileDone(Ctl, h, userFound))
       /\ h.pc = "writeFile" => UsedKept(Ctl, WriteFileDone(Ctl, h))

(* A personal node's announce of f1 is suspended at an await, the node is  *)
(* an owner and has been charged the size: a second request for the pair   *)
(* arrives in this state.                                                  *)
C12_Witness ==
  \E h \in BagToSet(inflight) :
    /\ h.kind = "announce"
    /\ h.size > 0
    /\ IsOwner(Ctl, h.id, h.filename)
    /\ Used(Ctl, h.id) = h.size
    /\ ENABLED AnnounceOf(h.id, h.filename, h.size)

(***************************************************************************)
(* C13: when registered nodes A and B both announce f, owners(f) is        *)
(* {A, B}; a deannounce from A then leaves owners(f) = {B} and the entry   *)
(* in place, and a deannounce from B after it removes the entry.  In       *)
(* general a deannounce of an owned file keeps the entry iff another       *)
(* owner remains.                                                          *)
(***************************************************************************)
C13_TwoOwners ==
  \A A \in DOMAIN registeredNodes, B \in DOMAIN registeredNodes, filename \in Files,
     size \in Sizes, userFound \in BOOLEAN :
    A # B =>
    LET c1 == Announce(Ctl, A, filename, size, userFound)
        c2 == Announce(c1, B, filename, size, userFound)
        c3 == Deannounce(c2, A, filename, size, userFound)
        c4 == Deannounce(c3, B, filename, size, userFound)
    IN /\ Tracked(c2, filename) /\ {A, B} \subseteq Owners(c2, filename)
       /\ Owners(c2, filename) \subseteq DOMAIN registeredNodes
       /\ Tracked(c3, filename) /\ Owners(c3, filename) = Owners(c2, filename) \ {A}
       /\ B \in Owners(c3, filename)
       /\ Owners(c2, filename) = {A, B} => ~Tracked(c4, filename)

C13_KeepsIffOwnerRemains ==
  \A id \in DOMAIN registeredNodes, filename \in DOMAIN fileLocations,
     size \in Sizes, userFound \in BOOLEAN :
    LET c1 == Deannounce(Ctl, id, filename, size, userFound)
    IN Owners(Ctl, filename) # {} =>
         /\ Tracked(c1, filename) <=> Owners(Ctl, filename) \ {id} # {}
         /\ Tracked(c1, filename) => Owners(c1, filename) = Owners(Ctl, filename) \ {id}

C13_Deannounce == C13_TwoOwners /\ C13_KeepsIffOwnerRemains

(* Both nodes own f1, one of them a personal node. *)
C13_Witness ==
  /\ Tracked(Ctl, "f1")
  /\ Owners(Ctl, "f1") = Nodes
  /\ \E id \in Nodes : registeredNodes[id].owner # None

(***************************************************************************)
(* C14: the storage.used of a node record that exists changes only in      *)
(* announce and deannounce steps; re-registration, heartbeat, locate and   *)
(* the sweep leave it as it is.                                            *)
(***************************************************************************)
C14_Original ==
  [][(\E id \in DOMAIN registeredNodes : Used(Ctl', id) # Used(Ctl, id))
       => (AnnounceReq \/ DeannounceReq)]_vars

(***************************************************************************)
(* C15: a heartbeat for an id that the registry does not hold is answered  *)
(* with success, creates no record and changes neither the registry nor    *)
(* the file index.                                                         *)
(***************************************************************************)
UnknownIds == Nodes \ DOMAIN registeredNodes

C15_UnknownHeartbeatIgnored ==
  \A id \in UnknownIds :
    LET c == Heartbeat(Ctl, id)
    IN /\ c.res.status = 200
       /\ c.res.success
       /\ ~MapHas(c.registeredNodes, id)
       /\ c.registeredNodes = registeredNodes
       /\ c.fileLocations = fileLocations
       /\ c.inflight = inflight

(* Some id is unknown while the registry holds an offline node and the     *)
(* index a file: a state in which a heartbeat would have something to      *)
(* change.                                                                 *)
C15_Witness ==
  /\ UnknownIds # {}
  /\ \E id \in DOMAIN registeredNodes : ~registeredNodes[id].online
  /\ fileLocations # EmptyMap

(***************************************************************************)
(* C16: register always succeeds and leaves a record for the id with       *)
(* online = true and lastSeen = now; a second register with the same       *)
(* arguments leaves the record the first one left (lastSeen apart); the    *)
(* file index and the records of the other nodes are not changed.          *)
(***************************************************************************)
C16_RegisterUpserts ==
  \A id \in Nodes, address \in Addresses, used \in UsedInputs :
    \A owner \in OwnerInputs[id] :
      LET c1 == Register(Ctl, id, address, owner, used)
          c2 == Register(c1, id, address, owner, used)
          Others(c) == [other \in DOMAIN c.registeredNodes \ {id} |-> c.registeredNodes[other]]
      IN /\ c1.res.status = 200 /\ c1.res.success
         /\ c2.res.status = 200 /\ c2.res.success
         /\ MapHas(c1.registeredNodes, id)
         /\ c1.registeredNodes[id].online
         /\ c1.registeredNodes[id].lastSeenAgo = 0
         /\ c1.registeredNodes[id].address = address
         /\ c1.registeredNodes[id].owner = owner
         /\ [c2.registeredNodes[id] EXCEPT !.lastSeenAgo = 0]
              = [c1.registeredNodes[id] EXCEPT !.lastSeenAgo = 0]
         /\ c2.registeredNodes[id].online /\ c2.registeredNodes[id].lastSeenAgo = 0
         /\ Others(c1) = Others(Ctl) /\ Others(c2) = Others(Ctl)
         /\ c1.fileLocations = fileLocations /\ c2.fileLocations = fileLocations
         /\ c1.inflight = inflight /\ c2.inflight = inflight

(* A plain node with a fresh record (online, just seen) is the only online *)
(* owner of f1 while the other node is offline.                            *)
C16_Witness ==
  /\ fileLocations # EmptyMap
  /\ \E id \in DOMAIN registeredNodes, other \in DOMAIN registeredNodes :
       /\ id # other
       /\ registeredNodes[id].online
       /\ registeredNodes[id].lastSeenAgo = 0
       /\ registeredNodes[id].owner = None
       /\ IsOwner(Ctl, id, "f1")
       /\ ~HasOnlineOwner([n \in DOMAIN registeredNodes \ {id} |-> registeredNodes[n]],
                          fileLocations["f1"])
       /\ ~registeredNodes[other].online

(***************************************************************************)
(* C17: when the write of a chunk fails during splitFile(f), the call      *)
(* fails and is over, it writes no manifest (the manifest directory is     *)
(* what it was), and an f that could not be reassembled before still       *)
(* cannot.  A manifest is only ever written by the last step of a call     *)
(* all of whose chunk writes succeeded.                                    *)
(***************************************************************************)
C17_FailedSplitWritesNoManifest ==
  [][/\ SplitWriteChunkFails =>
          /\ result'.op = "splitFile" /\ ~result'.ok
          /\ splitCall'.pc = "idle"
          /\ metaDir' = metaDir
          /\ \A outputPath \in OutPaths :
               ~ReassembleFile(Disk, splitCall.filename, outputPath).ok
                 => ~ReassembleFile(Disk', splitCall.filename, outputPath).ok
     /\ metaDir' # metaDir =>
          /\ SplitWriteMetadata
          /\ splitCall.i = ChunkCount(Len(splitCall.fileBuffer))
          /\ Len(splitCall.chunks) = splitCall.i]_vars

(* splitFile of a two-chunk file failed at its second chunk: the first     *)
(* chunk is stored and no manifest names the file.                         *)
C17_Witness ==
  /\ result = [op |-> "splitFile", ok |-> FALSE, error |-> WriteError]
  /\ splitCall.pc = "idle"
  /\ \E id \in DOMAIN chunkDir :
       /\ ~MapHas(metaDir, id[1])
       /\ id[3] = 0
       /\ Len(chunkDir[id]) = ChunkSize
       /\ chunkDir[id] = hashed[id]

(***************************************************************************)
(* C18: reassembleFile(f, out) for an f that has no manifest fails, writes *)
(* no output file and leaves every stored chunk and every manifest as it   *)
(* was.                                                                    *)
(***************************************************************************)
C18_NoManifestFails ==
  \A filename \in Filenames \ DOMAIN metaDir, outputPath \in OutPaths :
    LET r == ReassembleFile(Disk, filename, outputPath)
    IN /\ ~r.ok
       /\ r.error = "ENOENT"
       /\ r.disk.outDir = outDir
       /\ r.disk.chunkDir = chunkDir
       /\ r.disk.metaDir = metaDir

(* reassembleFile threw for a filename without manifest while the storage  *)
(* holds the manifest and chunks of another file and an earlier output.    *)
C18_Witness ==
  /\ result = [op |-> "reassembleFile", ok |-> FALSE, error |-> "ENOENT"]
  /\ Filenames \ DOMAIN metaDir # {}
  /\ \E filename \in DOMAIN metaDir :
       /\ metaDir[filename].chunkCount >= 2
       /\ AllChunksStored(metaDir[filename], chunkDir)
  /\ outDir # EmptyMap

(***************************************************************************)
(* C19: cleanup, with no splitFile in progress, deletes exactly the chunk  *)
(* files whose id no manifest lists, returns how many it deleted, and      *)
(* leaves the listed chunks, the manifests and the output files as they    *)
(* were: whatever reassembleFile did before cleanup it does after it.      *)
(***************************************************************************)
Referenced == UNION {ChunkIds(metaDir[f].chunks) : f \in DOMAIN metaDir}

C19_CleanupDeletesOrphans ==
  LET r == Cleanup(Disk)
  IN /\ r.ok
     /\ DOMAIN r.disk.chunkDir = DOMAIN chunkDir \cap Referenced
     /\ r.value = Cardinality(DOMAIN chunkDir \ Referenced)
     /\ \A id \in DOMAIN r.disk.chunkDir : r.disk.chunkDir[id] = chunkDir[id]
     /\ r.disk.metaDir = metaDir
     /\ r.disk.outDir = outDir
     /\ \A filename \in Filenames, outputPath \in OutPaths :
          LET before == ReassembleFile(Disk, filename, outputPath)
              after == ReassembleFile(r.disk, filename, outputPath)
          IN /\ after.ok = before.ok
             /\ after.error = before.error
             /\ after.disk.outDir = before.disk.outDir
             /\ after.disk.metaDir = before.disk.metaDir

(* The chunk ids splitFile gives a file *)
IdsOf(fileBuffer, filename) ==
  {SplitChunk(fileBuffer, filename, i).id : i \in 0..(ChunkCount(Len(fileBuffer)) - 1)}

(* cleanup has run: the chunks of a file that was split and reassembled    *)
(* earlier (its output is still there) are gone, and the manifest that     *)
(* replaced it has all its chunks.                                         *)
C19_Witness ==
  /\ result = [op |-> "cleanup", ok |-> TRUE, error |-> ""]
  /\ \E filename \in DOMAIN metaDir, outputPath \in DOMAIN outDir :
       /\ IdsOf(outDir[outputPath], filename) # {}
       /\ IdsOf(outDir[outputPath], filename) \cap DOMAIN chunkDir = {}
       /\ metaDir[filename].chunkCount >= 1
       /\ AllChunksStored(metaDir[filename], chunkDir)
       /\ DOMAIN chunkDir = Referenced

(***************************************************************************)
(* C20  In the dashboard upload, the outcome of the pushes to the peers   *)
(* does not reach the uploader: the response is the success of lines      *)
(* 275-283, sent before the first push.  A push that fails or times out    *)
(* leaves that response as it is, leaves the uploader's node among the     *)
(* owners of the file, and the loop goes on: every node of the list is     *)
(* tried in turn, and the replication ends only after the last one.        *)
(***************************************************************************)
PushFailure ==
  /\ upload.pc = "push"
  /\ upload'.log = Append(upload.log, <<upload.otherNodes[upload.i], "failed">>)

(* the nodes tried so far are the first i - 1 of the list, in its order *)
TriedInTurn(call) ==
  /\ Len(call.log) = call.i - 1
  /\ \A k \in 1..Len(call.log) : call.log[k][1] = call.otherNodes[k]
  /\ call.pc = "done" => Len(call.log) = Len(call.otherNodes)

C20_PushFailureIsolated ==
  /\ [](upload.i > 0 => TriedInTurn(upload))
  /\ [][PushFailure =>
          /\ upload.res = UploadOk(upload.finalPath, upload.size)
          /\ upload'.res = upload.res
          /\ IsOwner(Ctl, Uploader, upload.finalPath)
               => IsOwner(Ctl', Uploader, upload.finalPath)
          /\ upload'.otherNodes = upload.otherNodes
          /\ upload'.i = upload.i + 1
          /\ upload'.pc = IF upload.i < Len(upload.otherNodes) THEN "push" ELSE "done"]_vars

(* The push to the first peer failed, the second peer was pushed to all    *)
(* the same, and the uploader, who was told of a success, is an owner.     *)
C20_Witness ==
  /\ upload.pc = "done"
  /\ Len(upload.log) = 2
  /\ upload.log[1][2] = "failed"
  /\ upload.log[2][2] = "replicated"
  /\ upload.res.success
  /\ IsOwner(Ctl, Uploader, upload.finalPath)
  /\ MapHas(peers[upload.log[2][1]].localFiles, upload.finalPath)

(***************************************************************************)
(* C21: a deannounce from a registered node for a file that has no entry,  *)
(* or for a file the node does not own, is answered with success and       *)
(* changes nothing: not the file index, not storage.used of any node, and  *)
(* no handler is suspended.                                                *)
(***************************************************************************)
C21_DeannounceNoOp ==
  \A id \in DOMAIN registeredNodes, filename \in Files, size \in Sizes :
    ~IsOwner(Ctl, id, filename) =>
      LET c == DeannounceBegin(Ctl, id, filename, size)
      IN /\ c.res.status = 200 /\ c.res.success
         /\ c.fileLocations = fileLocations
         /\ c.registeredNodes = registeredNodes
         /\ c.inflight = inflight

(* f1 is tracked and owned by another node; a registered node that does    *)
(* not own it has used > 0, which a deannounce could lower.                *)
C21_Witness ==
  /\ Tracked(Ctl, "f1")
  /\ \E id \in DOMAIN registeredNodes :
       /\ ~IsOwner(Ctl, id, "f1")
       /\ Used(Ctl, id) > 0
       /\ Owners(Ctl, "f1") # {}

(***************************************************************************)
(* C22: splitFile of a file of S bytes writes a manifest whose chunkCount  *)
(* is the least n with n * chunkSize >= S; its chunks are listed with      *)
(* index 0 .. n-1 in that order; the chunk file of index i holds bytes     *)
(* i * chunkSize up to (not including) min((i+1) * chunkSize, S) of the    *)
(* file; every chunk but the last has chunkSize bytes; and the sizes add   *)
(* up to originalSize = S.  A file of three times the chunk size gives     *)
(* three chunks.                                                           *)
(***************************************************************************)
RECURSIVE SumSizes(_)
SumSizes(chunks) ==
  IF chunks = <<>> THEN 0 ELSE Head(chunks).size + SumSizes(Tail(chunks))

(* the example of the specification, "3 MiB with 1 MiB chunks", in the     *)
(* chunk size of the model                                                 *)
ExampleFile == [i \in 1..(3 * ChunkSize) |-> i % Cardinality(Bytes)]

ManifestOf(fileBuffer, filename) ==
  LET S == Len(fileBuffer)
      r == SplitFile(Disk, fileBuffer, filename)
      m == r.value
      n == m.chunkCount
  IN /\ r.ok
     /\ r.disk.metaDir[filename] = m
     /\ m.originalSize = S
     /\ n * ChunkSize >= S
     /\ n > 0 => (n - 1) * ChunkSize < S
     /\ Len(m.chunks) = n
     /\ \A k \in 1..n :
          LET c == m.chunks[k]
              first == (k - 1) * ChunkSize
              last == IF k * ChunkSize < S THEN k * ChunkSize ELSE S
          IN /\ c.index = k - 1
             /\ MapHas(r.disk.chunkDir, c.id)
             /\ r.disk.chunkDir[c.id] = [j \in 1..(last - first) |-> fileBuffer[first + j]]
             /\ c.size = last - first
             /\ k < n => c.size = ChunkSize
     /\ SumSizes(m.chunks) = S

C22_SplitManifest ==
  /\ \A fileBuffer \in Contents \cup {ExampleFile}, filename \in Filenames :
       ManifestOf(fileBuffer, filename)
  /\ SplitFile(Disk, ExampleFile, "a").value.chunkCount = 3

(* A split has written a manifest of more than one chunk whose last chunk  *)
(* is shorter than the chunk size.                                         *)
C22_Witness ==
  /\ result.op = "splitFile" /\ result.ok
  /\ \E filename \in DOMAIN metaDir :
       LET m == metaDir[filename]
       IN /\ m.chunkCount > 1
          /\ m.chunks[m.chunkCount].size < ChunkSize
          /\ m.originalSize > ChunkSize

(***************************************************************************)
(* C23 as stated: when a deannounce handler that was suspended resumes and *)
(* deletes the entry stored under its filename, that entry has no owner.   *)
(* (A deannounce that does not suspend tests and deletes the entry it has  *)
(* just emptied in one step.)                                              *)
(***************************************************************************)
C23_Original ==
  [][(ReadFileReturns \/ WriteFileReturns) =>
       \A f \in DOMAIN fileLocations \ DOMAIN fileLocations' :
         fileLocations[f].owners = {}]_vars

(***************************************************************************)
(* C24: the sweep sets online to false for exactly the nodes that, when it *)
(* runs, are online, have no owner and were last seen more than 30 s ago;  *)
(* it leaves every other record as it is (a node last seen 30 s ago or     *)
(* less, a node already offline, a personal node), and changes no other    *)
(* field of the records it marks.                                          *)
(***************************************************************************)
(* the controller as the next run of the heartbeat checker finds it when   *)
(* no request arrives before                                               *)
AtNextSweep == [Ctl EXCEPT !.registeredNodes = Elapse(@, sweepIn)]

C24_SweepMarksOffline ==
  LET c0 == AtNextSweep
      c1 == Sweep(c0)
  IN /\ DOMAIN c1.registeredNodes = DOMAIN c0.registeredNodes
     /\ \A id \in DOMAIN c0.registeredNodes :
          LET node == c0.registeredNodes[id]
          IN c1.registeredNodes[id] =
               IF node.online /\ node.owner = None /\ node.lastSeenAgo > 30000
               THEN [node EXCEPT !.online = FALSE]
               ELSE node

(* Right after a sweep: a plain node that the sweep found at exactly 30 s  *)
(* is online, and a personal node silent for longer is online too.         *)
C24_Witness ==
  /\ sweepIn = SweepInterval
  /\ \E id \in DOMAIN registeredNodes, other \in DOMAIN registeredNodes :
       /\ registeredNodes[id].owner = None
       /\ registeredNodes[id].online
       /\ registeredNodes[id].lastSeenAgo = HeartbeatTimeout
       /\ registeredNodes[other].owner # None
       /\ registeredNodes[other].online
       /\ registeredNodes[other].lastSeenAgo > HeartbeatTimeout

(***************************************************************************)
(* C25: the sweep removes an entry of the file index only when it has      *)
(* itself just marked a node offline and none of the entry's owners is     *)
(* online after the marking.  So an entry with an online owner survives    *)
(* every sweep, a sweep that marks no node leaves the file index as it is, *)
(* and the entries a sweep keeps are unchanged.                            *)
(***************************************************************************)
OnlineIn(nodes, id) == id \in DOMAIN nodes /\ nodes[id].online

C25_SweepDeletesOnlyOrphans ==
  LET c0 == AtNextSweep
      c1 == Sweep(c0)
      marked == {id \in DOMAIN c0.registeredNodes :
                   c0.registeredNodes[id].online /\ ~c1.registeredNodes[id].online}
  IN /\ DOMAIN c1.fileLocations \subseteq DOMAIN c0.fileLocations
     /\ \A f \in DOMAIN c1.fileLocations : c1.fileLocations[f] = c0.fileLocations[f]
     /\ \A f \in DOMAIN c0.fileLocations \ DOMAIN c1.fileLocations :
          /\ marked # {}
          /\ \A o \in c0.fileLocations[f].owners : ~OnlineIn(c1.registeredNodes, o)
     /\ marked = {} => c1.fileLocations = c0.fileLocations

(* An entry none of whose owners is online (its owner announced it after   *)
(* being marked offline), another node online, and nothing for the next    *)
(* sweep to mark: that sweep leaves the entry.                             *)
C25_Witness ==
  /\ Tracked(Ctl, "f1")
  /\ Owners(Ctl, "f1") # {}
  /\ \A o \in Owners(Ctl, "f1") : ~OnlineIn(registeredNodes, o)
  /\ \E id \in DOMAIN registeredNodes : registeredNodes[id].online
  /\ \A id \in DOMAIN registeredNodes :
       registeredNodes[id].online =>
         AtNextSweep.registeredNodes[id].lastSeenAgo <= HeartbeatTimeout
  /\ MapHas(Sweep(AtNextSweep).fileLocations, "f1")

(***************************************************************************)
(* C26: a heartbeat of a registered node sets its online flag and makes    *)
(* now its lastSeen, and writes nothing else: the node's address, port,    *)
(* owner and storage, the other nodes' records, the file index and the     *)
(* suspended handlers are as before.  A file entry the sweep removed while *)
(* the node was offline is therefore still absent after the heartbeat.     *)
(***************************************************************************)
C26_HeartbeatFrame ==
  \A id \in DOMAIN registeredNodes :
    LET c == Heartbeat(Ctl, id)
        before == registeredNodes[id]
        after == c.registeredNodes[id]
    IN /\ DOMAIN c.registeredNodes = DOMAIN registeredNodes
       /\ after.online /\ after.lastSeenAgo = 0
       /\ after.address = before.address /\ after.port = before.port
       /\ after.owner = before.owner /\ after.storage = before.storage
       /\ \A other \in DOMAIN registeredNodes \ {id} :
            c.registeredNodes[other] = registeredNodes[other]
       /\ c.fileLocations = fileLocations
       /\ c.inflight = inflight
       /\ c.res.status = 200 /\ c.res.success

(* A node marked offline whose file was removed from the index while its   *)
(* storage still counts it; its heartbeat brings it back online.           *)
C26_Witness ==
  \E id \in DOMAIN registeredNodes :
    /\ ~registeredNodes[id].online
    /\ registeredNodes[id].lastSeenAgo > HeartbeatTimeout
    /\ Used(Ctl, id) > 0
    /\ fileLocations = EmptyMap
    /\ Heartbeat(Ctl, id).registeredNodes[id].online

(***************************************************************************)
(* C27: the node list locate answers with holds one element for each owner *)
(* of the file whose node record is online, made of the owner's id and its *)
(* record's address and port; it is empty for a file that is not tracked.  *)
(* The handler changes neither the file index nor a node record.           *)
(***************************************************************************)
C27_LocateOnlineOwners ==
  \A filename \in Files :
    LET c == Locate(Ctl, filename)
        nodes == c.res.nodes
    IN /\ \A o \in Nodes :
            (\E n \in nodes : n.id = o) <=>
              /\ MapHas(fileLocations, filename)
              /\ o \in fileLocations[filename].owners
              /\ OnlineIn(registeredNodes, o)
       /\ \A n \in nodes : /\ n.address = registeredNodes[n.id].address
                           /\ n.port = registeredNodes[n.id].port
       /\ \A n, m \in nodes : n.id = m.id => n = m
       /\ ~MapHas(fileLocations, filename) => nodes = {}
       /\ c.res.status = 200 /\ c.res.success
       /\ c.fileLocations = fileLocations
       /\ c.registeredNodes = registeredNodes
       /\ c.inflight = inflight

(* The file has an online and an offline owner: locate lists the first     *)
(* only, and the second stays in the owner set.                            *)
C27_Witness ==
  /\ Tracked(Ctl, "f1")
  /\ \E on, off \in Owners(Ctl, "f1") :
       /\ registeredNodes[on].online /\ ~registeredNodes[off].online
       /\ {n.id : n \in Locate(Ctl, "f1").res.nodes} = {on}

(***************************************************************************)
(* C28: an announce that finds no entry for the filename creates one with  *)
(* the size of the request and the date of the request as uploadTime; an   *)
(* announce that finds an entry, whichever node sends it and whatever size *)
(* it carries, leaves the entry in place with the size and the uploadTime  *)
(* it had.  The completion of a suspended handler does not write them      *)
(* either.                                                                 *)
(***************************************************************************)
SameOrigin(c0, c1) ==
  \A f \in DOMAIN c0.fileLocations \cap DOMAIN c1.fileLocations :
    /\ c1.fileLocations[f].size = c0.fileLocations[f].size
    /\ c1.fileLocations[f].uploadTime = c0.fileLocations[f].uploadTime

C28_FirstAnnounceFixesSize ==
  /\ \A id \in DOMAIN registeredNodes, filename \in Files, size \in Sizes, userFound \in BOOLEAN :
       \A c \in {AnnounceBegin(Ctl, id, filename, size), Announce(Ctl, id, filename, size, userFound)} :
         /\ MapHas(c.fileLocations, filename)
         /\ SameOrigin(Ctl, c)
         /\ ~MapHas(fileLocations, filename) =>
               /\ c.fileLocations[filename].size = size
               /\ c.fileLocations[filename].uploadTime = Ctl.now
  /\ \A h \in BagToSet(inflight) :
       /\ h.pc = "readFile" => \A userFound \in BOOLEAN : SameOrigin(Ctl, ReadFileDone(Ctl, h, userFound))
       /\ h.pc = "writeFile" => SameOrigin(Ctl, WriteFileDone(Ctl, h))

(* The entry was created at another time than now with size 1 and has two  *)
(* owners: an announce of size 0 arriving now, from an owner or from       *)
(* another node, finds it.                                                 *)
C28_Witness ==
  /\ Tracked(Ctl, "f1")
  /\ fileLocations["f1"].uploadTime # Ctl.now
  /\ fileLocations["f1"].size = 1
  /\ Cardinality(Owners(Ctl, "f1")) = 2
  /\ \E id \in Owners(Ctl, "f1") : Used(Ctl, id) = 0

(***************************************************************************)
(* C29: with the sizes of the requests (register's storage.used, and the   *)
(* size of announce and deannounce) not negative, storage.used of every    *)
(* node is at least 0 in every reachable state; a deannounce by an owner   *)
(* with a size above the node's storage.used leaves storage.used at 0.     *)
(***************************************************************************)
C29_UsedNeverNegative ==
  /\ \A id \in DOMAIN registeredNodes : Used(Ctl, id) >= 0
  /\ \A id \in DOMAIN registeredNodes, filename \in Files, size \in Sizes :
       LET c == DeannounceBegin(Ctl, id, filename, size)
       IN /\ Used(c, id) >= 0
          /\ IsOwner(Ctl, id, filename) /\ size > Used(Ctl, id) => Used(c, id) = 0

(* An owner whose storage.used is 0 while another node's is not: its       *)
(* deannounce of size 1 exceeds what it has.                               *)
C29_Witness ==
  \E id \in DOMAIN registeredNodes :
    /\ IsOwner(Ctl, id, "f1")
    /\ Used(Ctl, id) = 0
    /\ \E other \in DOMAIN registeredNodes : Used(Ctl, other) > 0
    /\ Used(DeannounceBegin(Ctl, id, "f1", 1), id) = 0

(***************************************************************************)
(* C30: reassembleFile reads the chunks by ascending index, in whatever    *)
(* order the manifest lists their descriptors.  For every file, split and  *)
(* then reassembled from the manifest with its descriptors in any order,   *)
(* the output is the file; and for every manifest on the disk, each        *)
(* reordering of its descriptors gives the outcome and the output the      *)
(* manifest as stored gives.                                               *)
(***************************************************************************)
Reorderings(chunks) ==
  {[k \in 1..Len(chunks) |-> chunks[p[k]]] : p \in Orderings(1..Len(chunks))}

WithChunks(d, filename, chunks) == [d EXCEPT !.metaDir[filename].chunks = chunks]

C30_ReassembleAnyOrder ==
  /\ \A fileBuffer \in Contents \cup {ExampleFile}, filename \in Filenames,
        outputPath \in OutPaths :
       LET s == SplitFile(Disk, fileBuffer, filename)
       IN \A chunks \in Reorderings(s.value.chunks) :
            LET r == ReassembleFile(WithChunks(s.disk, filename, chunks), filename, outputPath)
            IN /\ r.ok
               /\ r.disk.outDir[outputPath] = fileBuffer
               /\ r.disk.metaDir[filename].chunks = s.value.chunks
  /\ \A filename \in DOMAIN metaDir, outputPath \in OutPaths :
       LET r0 == ReassembleFile(Disk, filename, outputPath)
       IN \A chunks \in Reorderings(metaDir[filename].chunks) :
            LET r == ReassembleFile(WithChunks(Disk, filename, chunks), filename, outputPath)
            IN /\ r.ok = r0.ok
               /\ r.ok => r.disk = r0.disk

(* A file of two chunks of different lengths has been split and            *)
(* reassembled; read in the reverse order, its manifest gives the output   *)
(* the disk holds.                                                         *)
C30_Witness ==
  /\ result = [op |-> "reassembleFile", ok |-> TRUE, error |-> ""]
  /\ \E filename \in DOMAIN metaDir, outputPath \in DOMAIN outDir :
       LET m == metaDir[filename]
           reversed == [k \in 1..Len(m.chunks) |-> m.chunks[Len(m.chunks) + 1 - k]]
           r == ReassembleFile(WithChunks(Disk, filename, reversed), filename, outputPath)
       IN /\ m.chunkCount = 2
          /\ m.chunks[1].size # m.chunks[2].size
          /\ reversed # m.chunks
          /\ r.ok
          /\ r.disk.outDir[outputPath] = outDir[outputPath]
          /\ Len(outDir[outputPath]) = m.originalSize

(***************************************************************************)
(* C31: the id of a chunk is made of the filename, the chunk's index and   *)
(* the hash of its bytes, and of nothing else: the ids splitFile gives do  *)
(* not depend on what the storage holds.  Splitting the same content under *)
(* the same filename again gives a manifest with the same ids in the same  *)
(* order, and leaves the stored chunk files and their bytes as the first   *)
(* split left them.                                                        *)
(***************************************************************************)
EmptyDisk == [chunkDir |-> EmptyMap, metaDir |-> EmptyMap, outDir |-> EmptyMap]

IdSeq(chunks) == [k \in 1..Len(chunks) |-> chunks[k].id]

C31_SplitAgainSameIds ==
  \A fileBuffer \in Contents, filename \in Filenames :
    LET s1 == SplitFile(Disk, fileBuffer, filename)
        s2 == SplitFile(s1.disk, fileBuffer, filename)
    IN /\ s1.ok /\ s2.ok
       /\ IdSeq(s2.value.chunks) = IdSeq(s1.value.chunks)
       /\ s2.disk.chunkDir = s1.disk.chunkDir
       /\ IdSeq(s1.value.chunks) = IdSeq(SplitFile(EmptyDisk, fileBuffer, filename).value.chunks)
       /\ \A k \in 1..Len(s1.value.chunks) :
            s1.value.chunks[k].id =
              ChunkIdOf(filename, s1.value.chunks[k].index, s1.value.chunks[k].hash)

(* A file of two chunks was split and reassembled; its content, as the     *)
(* output holds it, split under the same name again gives the manifest's   *)
(* ids and leaves the chunk files as they are.                             *)
C31_Witness ==
  \E filename \in DOMAIN metaDir, outputPath \in DOMAIN outDir :
    LET s == SplitFile(Disk, outDir[outputPath], filename)
    IN /\ metaDir[filename].chunkCount >= 2
       /\ metaDir[filename].reassembled
       /\ IdSeq(s.value.chunks) = IdSeq(metaDir[filename].chunks)
       /\ s.disk.chunkDir = chunkDir
       /\ result.op = "reassembleFile" /\ result.ok

(***************************************************************************)
(* C32: while an announce of (n, f) is suspended at one of its awaits,     *)
(* after it has added n to the owners of f, a run of the sweep that leaves *)
(* n online leaves the entry of f as it is, with n among its owners; the   *)
(* handler, resumed after the sweep, answers with success and the entry is *)
(* still there.                                                            *)
(***************************************************************************)
Resumed(c, h) ==
  IF h.pc = "readFile" THEN ReadFileDone(c, h, FALSE) ELSE WriteFileDone(c, h)

C32_SweepKeepsAnnounced ==
  \A h \in BagToSet(inflight) :
    (h.kind = "announce" /\ IsOwner(Ctl, h.id, h.filename)) =>
      LET c == Sweep(AtNextSweep)
          done == Resumed(c, h)
      IN c.registeredNodes[h.id].online =>
           /\ IsOwner(c, h.id, h.filename)
           /\ c.fileLocations[h.filename] = fileLocations[h.filename]
           /\ c.inflight = inflight
           /\ done.res.status = 200 /\ done.res.success
           /\ IsOwner(done, h.id, h.filename)

(* An announce of f1 is suspended; f1 has a second owner, a plain node     *)
(* that the next sweep marks offline, so that sweep scans the file index.  *)
C32_Witness ==
  \E h \in BagToSet(inflight), other \in DOMAIN registeredNodes :
    /\ h.kind = "announce"
    /\ other # h.id
    /\ Tracked(Ctl, h.filename)
    /\ {h.id, other} \subseteq Owners(Ctl, h.filename)
    /\ registeredNodes[other].online
    /\ ~Sweep(AtNextSweep).registeredNodes[other].online
    /\ Sweep(AtNextSweep).registeredNodes[h.id].online

(***************************************************************************)
(*        Replication among nodes that share an address and port           *)
(*                                                                         *)
(* The push of user_dashboard.js 254-260 goes to node.address:node.port of *)
(* the record listed, and is handled by the node process that listens      *)
(* there, which announces under its own id (node.js 155-161).  Every login *)
(* registers the user's personal node at localhost:5001 (register.js       *)
(* 270-277) and every user's node process is started on port 5001          *)
(* (register.js 105, 392), so several records can name one endpoint.       *)
(* Here every announce and every push succeeds.                            *)
(***************************************************************************)
Endpoints == {"a1", "a2"}         \* address and port of a record, taken together
PeerEmail == [id \in Peers |-> IF id = "n2" THEN "u2" ELSE "u3"]

(* node.js 53-59 (a node process registers) and register.js 270-277 (the   *)
(* login of the node's user registers it)                                  *)
NodeRegisters ==
  /\ \E id \in Peers, address \in Endpoints :
     \E owner \in {None, PeerEmail[id]} :
       Apply(Register(Ctl, id, address, owner, 0))
  /\ UNCHANGED sweepIn

(* The node processes started for an endpoint: the one of them that holds  *)
(* the port answers the requests sent there.                               *)
ListenersAt(nodes, address) ==
  {id \in Peers : MapHas(nodes, id) /\ nodes[id].address = address}

(* lines 219-227 with the announce answered 200 *)
UploadAnnounceSucceeds ==
  /\ MapHas(registeredNodes, Uploader)
  /\ UploadAnnounced

(* lines 254-262 and node.js 133-172: the process listening at the         *)
(* record's endpoint stores the file, announces itself and answers         *)
PushRouted ==
  /\ upload.pc = "push"
  /\ LET target == upload.otherNodes[upload.i]
     IN \E p \in ListenersAt(registeredNodes, registeredNodes[target].address),
           userFound \in BOOLEAN :
          LET c == Announce(Ctl, p, upload.finalPath, upload.size, userFound)
          IN /\ UsedWithin(c)
             /\ peers' = MapSet(peers, p, Replicated(peers[p], upload.finalPath, upload.size))
             /\ ApplyUpload(c, PushDone(upload))
  /\ UNCHANGED nodeStorage

SharedNext ==
  \/ LoginRegisters
  \/ NodeRegisters
  \/ UploadStored
  \/ UploadAnnounceSucceeds
  \/ UploadListed
  \/ UploadReadFile
  \/ PushRouted

SpecShared == Init /\ [][SharedNext]_vars

(***************************************************************************)
(* C33 as stated: once the replication of an upload has ended with every   *)
(* push answered and every announce accepted, the owners of the file are   *)
(* the uploader's node and every node the file was pushed to.              *)
(***************************************************************************)
AllReplicated(call) ==
  /\ call.pc = "done"
  /\ call.otherNodes # <<>>
  /\ Len(call.log) = Len(call.otherNodes)
  /\ \A k \in DOMAIN call.log : call.log[k] = <<call.otherNodes[k], "replicated">>

C33_Original ==
  AllReplicated(upload) =>
    /\ Tracked(Ctl, upload.finalPath)
    /\ {Uploader} \cup {upload.otherNodes[k] : k \in DOMAIN upload.otherNodes}
         \subseteq Owners(Ctl, upload.finalPath)

(***************************************************************************)
(*   Storage accounting with one size per file and one registration per    *)
(*   node                                                                  *)
(*                                                                         *)
(* Every node registers once, as a plain node with storage.used 0, and     *)
(* every announce and deannounce of a file carries the file's size.        *)
(***************************************************************************)
FileSize == [f \in Files |-> 1]

FirstRegister ==
  /\ \E id \in Nodes \ DOMAIN registeredNodes, address \in Addresses :
       Apply(Register(Ctl, id, address, None, 0))
  /\ UNCHANGED sweepIn

AnnounceSameSize ==
  /\ \E id \in Nodes, filename \in Files : AnnounceOf(id, filename, FileSize[filename])
  /\ UNCHANGED sweepIn

DeannounceSameSize ==
  /\ \E id \in Nodes, filename \in Files :
       Apply(DeannounceBegin(Ctl, id, filename, FileSize[filename]))
  /\ UNCHANGED sweepIn

AccountingNext ==
  \/ FirstRegister
  \/ HeartbeatReq
  \/ AnnounceSameSize
  \/ DeannounceSameSize
  \/ TimePasses(HeartbeatInterval)
  \/ SweepTick(HeartbeatInterval)

SpecAccounting == Init /\ [][AccountingNext]_vars

(***************************************************************************)
(* C34 as stated: with one size per (file, node) pair, storage.used of a   *)
(* node is what its first registration supplied (0 here) plus the sizes of *)
(* the files whose owners contain the node.                                *)
(***************************************************************************)
RECURSIVE SizeOfFiles(_)
SizeOfFiles(S) ==
  IF S = {} THEN 0
  ELSE LET f == CHOOSE x \in S : TRUE IN FileSize[f] + SizeOfFiles(S \ {f})

OwnedFiles(c, id) == {f \in DOMAIN c.fileLocations : id \in c.fileLocations[f].owners}

C34_Original ==
  \A id \in DOMAIN registeredNodes :
    Used(Ctl, id) = 0 + SizeOfFiles(OwnedFiles(Ctl, id))

(***************************************************************************)
(*   The user record of data/users.json under concurrent handlers          *)
(*                                                                         *)
(* An announce or deannounce for a personal node reads the whole file,     *)
(* changes usedStorage of the node's owner in its copy and writes the copy *)
(* back, with an await at the read and one at the write (controller.js     *)
(* 110-114, 182-186).  Here the file holds the owner and no read or write  *)
(* fails.  A handler suspended at the write carries its copy in the field  *)
(* usersData.                                                              *)
(***************************************************************************)
MaxUserUsed == MaxUsed + 1
MaxHandlers == MaxInflight + 1

ApplyUsers(c, data) ==
  /\ registeredNodes' = c.registeredNodes
  /\ fileLocations' = c.fileLocations
  /\ inflight' = c.inflight
  /\ usersJson' = data
  /\ UNCHANGED <<sweepIn, chunkVars, callVars, dashVars>>

(* lines 113 and 185: the new usedStorage, computed from the copy read *)
UpdatedUsers(h, usersData) ==
  [usersData EXCEPT ![h.owner] =
     IF h.kind = "announce" THEN @ + h.size ELSE Max(0, @ - h.size)]

(* lines 111-114, 183-186: readFile returns, the copy is updated and       *)
(* writeFile is awaited                                                    *)
ReadUsers(c, h, data) ==
  [c EXCEPT !.inflight =
     BagAdd(BagRemove(@, h),
            [h EXCEPT !.pc = "writeFile"] @@ [usersData |-> UpdatedUsers(h, data)])]

PersonalRegisters ==
  /\ \E id \in Nodes \ DOMAIN registeredNodes, address \in Addresses :
       Apply(Register(Ctl, id, address, UploaderEmail, 0))
  /\ UNCHANGED sweepIn

AnnounceStarts ==
  /\ \E id \in Nodes, filename \in Files :
       LET c == AnnounceBegin(Ctl, id, filename, FileSize[filename])
       IN /\ BagCardinality(c.inflight) <= MaxHandlers
          /\ UsedWithin(c)
          /\ Apply(c)
  /\ UNCHANGED sweepIn

DeannounceStarts ==
  /\ \E id \in Nodes, filename \in Files :
       LET c == DeannounceBegin(Ctl, id, filename, FileSize[filename])
       IN /\ BagCardinality(c.inflight) <= MaxHandlers
          /\ Apply(c)
  /\ UNCHANGED sweepIn

UsersReadReturns ==
  \E h \in BagToSet(inflight) :
    /\ h.pc = "readFile"
    /\ h.owner \in DOMAIN usersJson
    /\ UpdatedUsers(h, usersJson)[h.owner] <= MaxUserUsed
    /\ ApplyUsers(ReadUsers(Ctl, h, usersJson), usersJson)

UsersWriteReturns ==
  \E h \in BagToSet(inflight) :
    /\ h.pc = "writeFile"
    /\ ApplyUsers(WriteFileDone(Ctl, h), h.usersData)

UsersNext ==
  \/ PersonalRegisters
  \/ AnnounceStarts
  \/ DeannounceStarts
  \/ UsersReadReturns
  \/ UsersWriteReturns

SpecUsers == Init /\ [][UsersNext]_vars

(***************************************************************************)
(* C35 as stated: once every handler has completed, usedStorage of the     *)
(* owner is its initial value plus the sizes announced for new owners      *)
(* minus the sizes deannounced for removed ones.  Every node registers     *)
(* once with storage.used 0 and nothing is evicted here, so that balance   *)
(* is the sum of storage.used over the owner's nodes, which the handlers   *)
(* keep before their first await.  It is read in the states where every    *)
(* node of the owner is an owner of every file, where the balance is at    *)
(* its largest and the floor of line 185 cannot account for a difference.  *)
(***************************************************************************)
RECURSIVE UsedOfNodes(_, _)
UsedOfNodes(nodes, S) ==
  IF S = {} THEN 0
  ELSE LET id == CHOOSE x \in S : TRUE IN nodes[id].storage.used + UsedOfNodes(nodes, S \ {id})

NodesOf(nodes, owner) == {id \in DOMAIN nodes : nodes[id].owner = owner}

HoldsAll(c, owner) ==
  \A id \in NodesOf(c.registeredNodes, owner), f \in Files :
    Tracked(c, f) /\ id \in Owners(c, f)

C35_Original ==
  inflight = EmptyBag =>
    \A owner \in {o \in DOMAIN usersJson : HoldsAll(Ctl, o)} :
      usersJson[owner] =
        UsersJson0[owner] + UsedOfNodes(registeredNodes, NodesOf(registeredNodes, owner))

(***************************************************************************)
(* C36: every node id in the owners set of an entry of the file index is   *)
(* a key of the node registry.                                             *)
(***************************************************************************)
C36_OwnersRegistered ==
  \A filename \in DOMAIN fileLocations :
    fileLocations[filename].owners \subseteq DOMAIN registeredNodes

(* a file is owned while a node that may announce has not registered *)
C36_Witness ==
  /\ \E filename \in DOMAIN fileLocations : fileLocations[filename].owners # {}
  /\ Nodes \ DOMAIN registeredNodes # {}

(***************************************************************************)
(*   A storage node whose heartbeats all arrive                            *)
(*                                                                         *)
(* node.js 64-73 posts a heartbeat every 5000 ms with a request timeout of *)
(* 2000 ms, so two arrivals are less than two heartbeat periods apart.     *)
(* The clock advances only while the last contact of the node Punctual     *)
(* (its registration or a heartbeat) is at most one period old; the other  *)
(* node sends heartbeats or not, as it likes.                              *)
(***************************************************************************)
Punctual == "n1"

InTime ==
  MapHas(registeredNodes, Punctual) =>
    registeredNodes[Punctual].lastSeenAgo <= HeartbeatInterval

PunctualNext ==
  \/ RegisterReq(PlainOnly)
  \/ HeartbeatReq
  \/ AnnounceReq
  \/ DeannounceReq
  \/ (InTime /\ TimePasses(HeartbeatInterval))
  \/ (InTime /\ SweepTick(HeartbeatInterval))

SpecPunctual == Init /\ [][PunctualNext]_vars

(***************************************************************************)
(* C37: a plain node whose heartbeats all reach the controller is online   *)
(* in every state, and the sweep that is due next leaves it online and     *)
(* leaves every file entry it is an owner of as it is.                     *)
(***************************************************************************)
C37_PunctualNeverOffline ==
  MapHas(registeredNodes, Punctual) =>
    /\ registeredNodes[Punctual].online
    /\ registeredNodes[Punctual].lastSeenAgo < HeartbeatTimeout
    /\ InTime =>
         LET c == Sweep([Ctl EXCEPT !.registeredNodes = Elapse(@, HeartbeatInterval)])
         IN /\ c.registeredNodes[Punctual].online
            /\ \A filename \in DOMAIN fileLocations :
                 Punctual \in fileLocations[filename].owners =>
                   /\ Tracked(c, filename)
                   /\ c.fileLocations[filename] = fileLocations[filename]

(* the sweep is due, the heartbeat of the punctual node is a period late,  *)
(* and the other owner of its file has been marked offline                 *)
C37_Witness ==
  /\ MapHas(registeredNodes, Punctual)
  /\ registeredNodes[Punctual].lastSeenAgo = HeartbeatInterval
  /\ sweepIn = HeartbeatInterval
  /\ \E filename \in DOMAIN fileLocations, id \in DOMAIN registeredNodes :
       /\ {Punctual, id} \subseteq fileLocations[filename].owners
       /\ ~registeredNodes[id].online


(***************************************************************************)
(*   DELETE /api/files/:filename of the user dashboard                     *)
(*                                                                         *)
(* user_dashboard.js 389-419: the file is unlinked, GET /api/nodes lists   *)
(* every node of the registry and a deannounce with the file's name and    *)
(* size is posted for each of them.  The nodes of other users register     *)
(* with the controller and announce files of their own, and a push is      *)
(* delivered to the node it is meant for.                                  *)
(***************************************************************************)
(* register.js 270-277: another user logs in and the personal node of     *)
(* that user is registered                                                 *)
OtherLogin ==
  /\ \E p \in Peers, address \in Addresses :
       Apply(Register(Ctl, p, address, PeerEmail[p], 0))
  /\ UNCHANGED sweepIn

(* the dashboard of another user announces a file stored for its own node *)
OtherAnnounces ==
  /\ \E p \in Peers \cap DOMAIN registeredNodes, filename \in Files, userFound \in BOOLEAN :
       /\ registeredNodes[p].owner # None
       /\ LET c == Announce(Ctl, p, filename, 1, userFound)
          IN UsedWithin(c) /\ Apply(c)
  /\ UNCHANGED sweepIn

(* the for loop of lines 402-413 over the nodes of the list *)
RECURSIVE DeannounceAll(_, _, _, _, _)
DeannounceAll(c, ids, filename, fileSize, userFound) ==
  IF ids = {} THEN c
  ELSE LET id == CHOOSE x \in ids : TRUE
       IN DeannounceAll(Deannounce(c, id, filename, fileSize, userFound),
                        ids \ {id}, filename, fileSize, userFound)

(* lines 389-416 for the file of the last upload, every request answered *)
DashboardDelete ==
  /\ upload.pc = "done"
  /\ upload.finalPath \in nodeStorage
  /\ nodeStorage' = nodeStorage \ {upload.finalPath}
  /\ \E userFound \in BOOLEAN :
       ApplyUpload(DeannounceAll(Ctl, DOMAIN registeredNodes, upload.finalPath,
                                 upload.size, userFound), upload)
  /\ UNCHANGED peers

DeleteNext ==
  \/ LoginRegisters
  \/ OtherLogin
  \/ UploadStored
  \/ UploadAnnounceSucceeds
  \/ UploadListed
  \/ UploadReadFile
  \/ ((\A p \in Peers : peers[p].usedStorage < MaxUsed) /\ PushHandled)
  \/ PushFails
  \/ OtherAnnounces
  \/ DashboardDelete

SpecDelete == Init /\ [][DeleteNext]_vars

(***************************************************************************)
(* C38 as stated: the delete of the uploaded file f through the user's     *)
(* dashboard leaves a node of another user that announced a file of its    *)
(* own under the name f, and holds no replica of the upload, an owner of f *)
(* with its storage.used as it was (f not empty).                          *)
(***************************************************************************)
C38_Original ==
  (upload.pc = "done" /\ upload.finalPath \in nodeStorage /\ upload.size # 0) =>
    \A userFound \in BOOLEAN :
      LET f == upload.finalPath
          c == DeannounceAll(Ctl, DOMAIN registeredNodes, f, upload.size, userFound)
      IN \A p \in Peers \cap DOMAIN registeredNodes :
           ( /\ registeredNodes[p].owner \notin {None, UploaderEmail}
             /\ ~MapHas(peers[p].localFiles, f)
             /\ Tracked(Ctl, f)
             /\ p \in Owners(Ctl, f) )
           => /\ Tracked(c, f)
              /\ p \in Owners(c, f)
              /\ Used(c, p) = Used(Ctl, p)
====
